---- MODULE Spec2Model ----
(***************************************************************************)
(* Model of the markup protection / restoration pipeline of                *)
(* koha-doc-translator (translator.py).                                    *)
(*                                                                         *)
(* Text is a sequence of one-character strings.  The regular expressions   *)
(* of the source are written as sequences of items (literal, quantified    *)
(* character class, group open/close, back reference, lookahead,           *)
(* lookbehind, end anchor) and matched with Python's backtracking          *)
(* semantics: leftmost match, greedy quantifiers try the longest run       *)
(* first, lazy quantifiers the shortest.                                   *)
(***************************************************************************)
EXTENDS Integers, Sequences, FiniteSets, TLC

(***************************************************************************)
(* Characters and character classes                                        *)
(***************************************************************************)
\* the backquote character (SANY pairs a backquote written in a string with
\* the next prime of the module, so the character is named instead)
BQ == "BQ"

\* [a-zA-Z]
Alpha == {"a","b","c","d","e","f","g","h","i","j","k","l","m",
          "n","o","p","q","r","s","t","u","v","w","x","y","z",
          "A","B","C","D","E","F","G","H","I","J","K","L","M",
          "N","O","P","Q","R","S","T","U","V","W","X","Y","Z"}

\* \s of Python's re for str patterns (the ASCII members)
Space == {" ", "\n", "\t", "\r"}

(***************************************************************************)
(* Regular expression items                                                *)
(***************************************************************************)
Item(t, s, neg, set, min, lazy, g, alts) ==
    [t |-> t, s |-> s, neg |-> neg, set |-> set, min |-> min, lazy |-> lazy,
     g |-> g, alts |-> alts]

\* a literal string
Lit(s) == Item("lit", s, FALSE, {}, 0, FALSE, 0, <<>>)
\* [set]* and [set]+
Star(set) == Item("cls", <<>>, FALSE, set, 0, FALSE, 0, <<>>)
Plus(set) == Item("cls", <<>>, FALSE, set, 1, FALSE, 0, <<>>)
\* [^set]*, [^set]+ and [^set]*?
NStar(set) == Item("cls", <<>>, TRUE, set, 0, FALSE, 0, <<>>)
NPlus(set) == Item("cls", <<>>, TRUE, set, 1, FALSE, 0, <<>>)
NStarLazy(set) == Item("cls", <<>>, TRUE, set, 0, TRUE, 0, <<>>)
\* ( and ) of group g
Open(g) == Item("open", <<>>, FALSE, {}, 0, FALSE, g, <<>>)
Close(g) == Item("close", <<>>, FALSE, {}, 0, FALSE, g, <<>>)
\* \g
BackRef(g) == Item("bref", <<>>, FALSE, {}, 0, FALSE, g, <<>>)
\* (?=a1|a2|...) and (?!a1|a2|...)
LookAhead(alts) == Item("la", <<>>, FALSE, {}, 0, FALSE, 0, alts)
NegLookAhead(alts) == Item("la", <<>>, TRUE, {}, 0, FALSE, 0, alts)
\* (?<![set])
NegLookBehind(set) == Item("lb", <<>>, TRUE, set, 0, FALSE, 0, <<>>)
\* $
Eos == Item("eos", <<>>, FALSE, {}, 0, FALSE, 0, <<>>)

(***************************************************************************)
(* The matcher                                                             *)
(***************************************************************************)
\* the capture groups of a match: group number -> <<first, next>> positions
NoCaps == [g \in 1..3 |-> <<0, 0>>]

\* does literal lit occur in s at position pos
LitAt(s, pos, lit) ==
    /\ pos + Len(lit) - 1 <= Len(s)
    /\ \A j \in 1..Len(lit) : s[pos + j - 1] = lit[j]

Min(S) == CHOOSE x \in S : \A y \in S : x <= y
Max(S) == CHOOSE x \in S : \A y \in S : x >= y

\* the literal that a match of items k.. of pat begins with
RECURSIVE NextLit(_, _)
NextLit(pat, k) ==
    IF k > Len(pat) THEN <<>>
    ELSE IF pat[k].t \in {"open", "close"} THEN NextLit(pat, k + 1)
    ELSE IF pat[k].t = "lit" THEN pat[k].s ELSE <<>>

\* re match of items k.. of pat at position pos of s (backtracking), as
\* [ok, end, caps]
RECURSIVE MatchAt(_, _, _, _, _)
MatchAt(pat, k, s, pos, caps) ==
    IF k > Len(pat) THEN [ok |-> TRUE, end |-> pos, caps |-> caps]
    ELSE LET it == pat[k]
             Fail == [ok |-> FALSE, end |-> 0, caps |-> NoCaps]
             Rest(p, c) == MatchAt(pat, k + 1, s, p, c)
             \* the length of the run of characters of the class from pos
             RunTo(stops) ==
                 IF stops = {} THEN Len(s) + 1 - pos ELSE Min(stops) - pos
             \* the matches of the rest of pat after each run length: a
             \* greedy quantifier takes the longest run that has one, a
             \* lazy quantifier the shortest
             Pick(good) ==
                 IF good = {} THEN Fail
                 ELSE (CHOOSE x \in good :
                         \A y \in good : IF it.lazy THEN x.n <= y.n
                                         ELSE x.n >= y.n).r
             \* (a run that the literal lit after the quantifier does not
             \* follow is left out)
             Class(run, lit) ==
                 IF run < it.min THEN Fail
                 ELSE Pick({x \in {[n |-> n, r |-> Rest(pos + n, caps)] :
                                     n \in {m \in it.min..run :
                                              LitAt(s, pos + m, lit)}} : x.r.ok})
             Same(w) == IF LitAt(s, pos, w) THEN Rest(pos + Len(w), caps) ELSE Fail
         IN
      CASE it.t = "lit" -> Same(it.s)
        [] it.t = "cls" ->
             Class(RunTo({p \in pos..Len(s) : (s[p] \in it.set) = it.neg}),
                   NextLit(pat, k + 1))
        [] it.t = "open" -> Rest(pos, [caps EXCEPT ![it.g] = <<pos, pos>>])
        [] it.t = "close" ->
             Rest(pos, [caps EXCEPT ![it.g] = <<caps[it.g][1], pos>>])
        [] it.t = "bref" -> Same(SubSeq(s, caps[it.g][1], caps[it.g][2] - 1))
        [] it.t = "la" ->
             IF (\E a \in 1..Len(it.alts) :
                    MatchAt(it.alts[a], 1, s, pos, caps).ok) # it.neg
             THEN Rest(pos, caps) ELSE Fail
        [] it.t = "lb" ->
             IF pos > 1 /\ s[pos - 1] \in it.set THEN Fail ELSE Rest(pos, caps)
        [] it.t = "eos" ->
             IF pos = Len(s) + 1 \/ (pos = Len(s) /\ s[pos] = "\n")
             THEN Rest(pos, caps) ELSE Fail

\* re.search from position from: the leftmost match, as
\* [ok, start, end, caps]
Search(pat, s, from) ==
    LET First(found) ==
            IF found = {}
            THEN [ok |-> FALSE, start |-> 0, end |-> 0, caps |-> NoCaps]
            ELSE CHOOSE m \in found : \A y \in found : m.start <= y.start
        At(p, r) == [ok |-> r.ok, start |-> p, end |-> r.end, caps |-> r.caps]
    IN  First({m \in {At(p, MatchAt(pat, 1, s, p, NoCaps)) :
                        p \in from..(Len(s) + 1)} : m.ok})

\* list(re.finditer(pat, s)) from position from: the non-overlapping
\* matches, left to right
RECURSIVE FindIter(_, _, _)
FindIter(pat, s, from) ==
    LET Matches(m) ==
            IF ~m.ok THEN <<>>
            ELSE <<m>> \o FindIter(pat, s, IF m.end > m.start THEN m.end
                                           ELSE m.end + 1)
    IN  Matches(Search(pat, s, from))

\* match.group(g) ; group 0 is the whole match
Group(s, m, g) ==
    IF g = 0 THEN SubSeq(s, m.start, m.end - 1)
    ELSE SubSeq(s, m.caps[g][1], m.caps[g][2] - 1)

\* a replacement template is a sequence of parts: a literal, or a group
TLit(s) == [g |-> 0, s |-> s]
TGrp(g) == [g |-> g, s |-> <<>>]

\* match.expand(tpl) from part k on
RECURSIVE Expand(_, _, _, _)
Expand(tpl, k, s, m) ==
    IF k > Len(tpl) THEN <<>>
    ELSE (IF tpl[k].g = 0 THEN tpl[k].s ELSE Group(s, m, tpl[k].g))
         \o Expand(tpl, k + 1, s, m)

\* re.sub(pat, tpl, s), the part of s from position from on
RECURSIVE ReSub(_, _, _, _)
ReSub(pat, tpl, s, from) ==
    LET Sub(m) ==
            IF ~m.ok THEN SubSeq(s, from, Len(s))
            ELSE SubSeq(s, from, m.start - 1) \o Expand(tpl, 1, s, m)
                 \o (IF m.end > m.start THEN ReSub(pat, tpl, s, m.end)
                     ELSE IF m.end > Len(s) THEN <<>>
                     ELSE <<s[m.end]>> \o ReSub(pat, tpl, s, m.end + 1))
    IN  Sub(Search(pat, s, from))

(***************************************************************************)
(* str methods                                                             *)
(***************************************************************************)
\* s.replace(old, new), the part of s from position from on: every
\* non-overlapping occurrence, left to right
RECURSIVE StrReplace(_, _, _, _)
StrReplace(s, old, new, from) ==
    LET Next1(occ) ==
            IF occ = {} THEN SubSeq(s, from, Len(s))
            ELSE SubSeq(s, from, Min(occ) - 1) \o new
                 \o StrReplace(s, old, new, Min(occ) + Len(old))
    IN  IF old = <<>> THEN SubSeq(s, from, Len(s))
        ELSE Next1({p \in from..Len(s) : LitAt(s, p, old)})

\* text = text.replace(old, new) for each <<old, new>> of pairs, in order
RECURSIVE ReplaceEach(_, _, _)
ReplaceEach(s, pairs, k) ==
    IF k > Len(pairs) THEN s
    ELSE ReplaceEach(StrReplace(s, pairs[k][1], pairs[k][2], 1), pairs, k + 1)

\* for match in ms: text = text.replace(match.group(0), New(match)), the
\* matches being those of src
ReplaceMatches(s, src, ms, New(_)) ==
    ReplaceEach(s, [j \in 1..Len(ms) |-> <<Group(src, ms[j], 0), New(ms[j])>>], 1)

\* lit in s
Contains(s, lit) == \E p \in 1..(Len(s) + 1) : LitAt(s, p, lit)

\* s.strip(): leading and trailing whitespace removed
Strip(s) ==
    LET Cut(inner) ==
            IF inner = {} THEN <<>> ELSE SubSeq(s, Min(inner), Max(inner))
    IN  Cut({p \in 1..Len(s) : s[p] \notin Space})

\* s[:n] and s[n:] of Python (n >= 0; out of range offsets are clamped)
Take(s, n) == SubSeq(s, 1, IF n < Len(s) THEN n ELSE Len(s))
Drop(s, n) == SubSeq(s, n + 1, Len(s))

\* str(i) for i >= 0
RECURSIVE IntToStr(_)
IntToStr(i) ==
    IF i < 10 THEN <<(<<"0","1","2","3","4","5","6","7","8","9">>)[i + 1]>>
    ELSE IntToStr(i \div 10) \o IntToStr(i % 10)

(***************************************************************************)
(* The placeholder table: a Python dict, kept in insertion order.          *)
(* full is the entry's 'full_match' (complex, url), 'full' (simple, subst) *)
(* or 'original' (escaped_underscore).                                     *)
(***************************************************************************)
\* ':ref:`' and ':ref:'
REF == <<":","r","e","f",":",BQ>>
RefColon == <<":","r","e","f",":">>

Entry(id, type, display, space, suffix, full, label, link, url) ==
    [id |-> id, type |-> type, display_text |-> display, has_space |-> space,
     suffix |-> suffix, full |-> full, label |-> label, link_text |-> link,
     url |-> url]

\* placeholders[id] = e : a new key is appended, an existing key keeps its
\* place and gets the new value
DictSet(d, e) ==
    IF \E j \in 1..Len(d) : d[j].id = e.id
    THEN [j \in 1..Len(d) |-> IF d[j].id = e.id THEN e ELSE d[j]]
    ELSE Append(d, e)

\* the all_refs entries of the matches ms of one kind
RefsOf(type, ms) ==
    [j \in 1..Len(ms) |-> [type |-> type, start |-> ms[j].start,
                           end |-> ms[j].end, match |-> ms[j]]]

\* list.sort(key=start, reverse=True): stable, largest start first
RECURSIVE SortByStartDesc(_)
SortByStartDesc(refs) ==
    LET Insert(sorted, x, n) ==
            SubSeq(sorted, 1, n) \o <<x>> \o SubSeq(sorted, n + 1, Len(sorted))
        Into(sorted, x) ==
            Insert(sorted, x,
                   Cardinality({j \in 1..Len(sorted) : sorted[j].start >= x.start}))
    IN  IF refs = <<>> THEN <<>>
        ELSE Into(SortByStartDesc(SubSeq(refs, 1, Len(refs) - 1)), refs[Len(refs)])

\* a placeholder id that names the kind alone, without the position in
\* all_refs
PlaceholderIdOfType(type, i) ==
    CASE type = "complex" -> <<"C","O","M","P","L","E","X","_","R","E","F">>
      [] type = "simple" -> <<"S","I","M","P","L","E","_","R","E","F">>
      [] type = "subst" -> <<"S","U","B","S","T","_","R","E","F">>
      [] type = "url" -> <<"U","R","L","_","R","E","F">>

\* placeholder_id of the i-th (0-based) entry of all_refs: 'COMPLEX_REF_i',
\* 'SIMPLE_REF_i', 'SUBST_REF_i', 'URL_REF_i'
PlaceholderId(type, i) ==
    (CASE type = "complex" -> <<"C","O","M","P","L","E","X","_","R","E","F","_">>
       [] type = "simple" -> <<"S","I","M","P","L","E","_","R","E","F","_">>
       [] type = "subst" -> <<"S","U","B","S","T","_","R","E","F","_">>
       [] type = "url" -> <<"U","R","L","_","R","E","F","_">>)
    \o IntToStr(i)

(***************************************************************************)
(* preserve_rst_references_with_mustache                                   *)
(***************************************************************************)
\* r':ref:`([^<]*)<([^>]*)>`'
MComplexPat == <<Lit(REF), Open(1), NStar({"<"}), Close(1), Lit(<<"<">>),
                 Open(2), NStar({">"}), Close(2), Lit(<<">", BQ>>)>>
\* r':ref:`([^<`]*)`(?!<)'
MSimplePat == <<Lit(REF), Open(1), NStar({"<", BQ}), Close(1), Lit(<<BQ>>),
                NegLookAhead(<< <<Lit(<<"<">>)>> >>)>>
\* r'\|([^|]+)\|'
MSubstPat == <<Lit(<<"|">>), Open(1), NPlus({"|"}), Close(1), Lit(<<"|">>)>>
\* r'`([^`<]+)\s*<([^>]+)>`_'
MUrlPat == <<Lit(<<BQ>>), Open(1), NPlus({BQ, "<"}), Close(1), Star(Space),
             Lit(<<"<">>), Open(2), NPlus({">"}), Close(2), Lit(<<">", BQ, "_">>)>>

\* all_refs after the sort (lines 458-506)
MustacheAllRefs(text) ==
    SortByStartDesc(RefsOf("complex", FindIter(MComplexPat, text, 1))
                    \o RefsOf("simple", FindIter(MSimplePat, text, 1))
                    \o RefsOf("subst", FindIter(MSubstPat, text, 1))
                    \o RefsOf("url", FindIter(MUrlPat, text, 1)))

\* the Mustache tag that stands for placeholder id: '{{RST_LABEL_id}}',
\* '{{RST_SIMPLEREF_id}}', '{{RST_SUBST_id}}', '{{RST_URL_id}}'
Token(type, id) ==
    <<"{", "{">>
    \o (CASE type = "complex" -> <<"R","S","T","_","L","A","B","E","L","_">>
          [] type = "simple" -> <<"R","S","T","_","S","I","M","P","L","E","R","E","F","_">>
          [] type = "subst" -> <<"R","S","T","_","S","U","B","S","T","_">>
          [] type = "url" -> <<"R","S","T","_","U","R","L","_">>)
    \o id \o <<"}", "}">>

\* the table entry of one reference (lines 513-585)
MustacheEntry(text, ref, id) ==
    LET g1 == Group(text, ref.match, 1)
        g2 == Group(text, ref.match, 2)
        full == Group(text, ref.match, 0)
    IN CASE ref.type = "complex" ->
              Entry(id, "complex", Strip(g1), g1 # <<>> /\ g1[Len(g1)] = " ",
                    <<"<">> \o g2 \o <<">", BQ>>, full, Strip(g2), <<>>, <<>>)
         [] ref.type = "simple" ->
              Entry(id, "simple", <<>>, FALSE, <<>>, full, Strip(g1), <<>>, <<>>)
         [] ref.type = "subst" ->
              Entry(id, "subst", <<>>, FALSE, <<>>, full, Strip(g1), <<>>, <<>>)
         [] ref.type = "url" ->
              Entry(id, "url", <<>>, FALSE, <<>>, full, <<>>, Strip(g1), Strip(g2))

\* what replaces the span of one reference in tagged_text
MustacheTagged(e) ==
    CASE e.type = "complex" ->
           REF \o e.display_text \o Token("complex", e.id) \o <<BQ>>
      [] e.type = "simple" -> Token("simple", e.id)
      [] e.type = "subst" -> Token("subst", e.id)
      [] e.type = "url" ->
           <<BQ>> \o e.link_text \o <<" ">> \o Token("url", e.id) \o <<BQ, "_">>

\* the loop of lines 509-591 from the i-th (0-based) reference on; the
\* offsets are those of the matches in the original text
RECURSIVE MustacheLoop(_, _, _, _, _)
MustacheLoop(text, refs, i, tagged_text, table) ==
    LET Step(ref, e) ==
            MustacheLoop(text, refs, i + 1,
                Take(tagged_text, ref.start - 1) \o MustacheTagged(e)
                    \o Drop(tagged_text, ref.end - 1),
                DictSet(table, e))
    IN  IF i >= Len(refs) THEN [tagged |-> tagged_text, placeholders |-> table]
        ELSE Step(refs[i + 1],
                  MustacheEntry(text, refs[i + 1], PlaceholderId(refs[i + 1].type, i)))

\* preserve_rst_references_with_mustache(text) -> (tagged_text, placeholders)
preserve_rst_references_with_mustache(text) ==
    IF text = <<>> THEN [tagged |-> text, placeholders |-> <<>>]
    ELSE MustacheLoop(text, MustacheAllRefs(text), 0, text, <<>>)

(***************************************************************************)
(* restore_rst_references_from_mustache                                    *)
(***************************************************************************)
\* f'([^:]*)(:ref:`[^{{]*)({{{{RST_LABEL_{placeholder_id}}}}})`'
NormalPat(id) ==
    <<Open(1), NStar({":"}), Close(1), Open(2), Lit(REF), NStar({"{"}), Close(2),
      Open(3), Lit(Token("complex", id)), Close(3), Lit(<<BQ>>)>>
\* f'([^:]*):ref:`\s*({{{{RST_LABEL_{placeholder_id}}}}})`'
MissingTextPat(id) ==
    <<Open(1), NStar({":"}), Close(1), Lit(REF), Star(Space),
      Open(2), Lit(Token("complex", id)), Close(2), Lit(<<BQ>>)>>
\* f'([^:]*):ref:`\s*<\s*{ref_data["label"]}\s*>`' ; the label is a Sphinx
\* label name, which the pattern matches literally
LabelOnlyPat(label) ==
    <<Open(1), NStar({":"}), Close(1), Lit(REF), Star(Space), Lit(<<"<">>),
      Star(Space), Lit(label), Star(Space), Lit(<<">", BQ>>)>>

\* the reference without the space before '<', whatever has_space says
FullReferenceNoSpace(prefix, display, e) ==
    prefix \o REF \o display \o <<"<">> \o e.label \o <<">", BQ>>

\* f"{prefix}:ref:`{display}<{label}>`", with a space before '<' if has_space
FullReference(prefix, display, e) ==
    prefix \o REF \o display \o (IF e.has_space THEN <<" ">> ELSE <<>>)
    \o <<"<">> \o e.label \o <<">", BQ>>

\* translated_display_text of a normal match (lines 627-634); the pattern
\* of re.match is r':ref:`([^`]*)'
TranslatedDisplayText(ref_part) ==
    LET Text(m) ==
            IF m.ok THEN Strip(SubSeq(ref_part, m.caps[1][1], m.caps[1][2] - 1))
            ELSE Strip(StrReplace(ref_part, REF, <<>>, 1))
    IN  Text(MatchAt(<<Lit(REF), Open(1), NStar({BQ}), Close(1)>>, 1, ref_part,
                     1, NoCaps))

\* one complex table entry (lines 613-679)
RestoreComplex(text, e) ==
    LET Normal(ms) ==
            ReplaceMatches(text, text, ms,
                LAMBDA m : FullReference(Group(text, m, 1),
                               TranslatedDisplayText(Group(text, m, 2)), e))
        Missing(t1, ms) ==
            ReplaceMatches(t1, text, ms,
                LAMBDA m : FullReference(Group(text, m, 1), e.display_text, e))
        LabelOnlyIn(t2, ms) ==
            ReplaceMatches(t2, t2, ms,
                LAMBDA m : FullReference(Group(t2, m, 1), e.display_text, e))
        LabelOnly(t2) == LabelOnlyIn(t2, FindIter(LabelOnlyPat(e.label), t2, 1))
    IN  LabelOnly(Missing(Normal(FindIter(NormalPat(e.id), text, 1)),
                          FindIter(MissingTextPat(e.id), text, 1)))

\* one url table entry (lines 702-714); the pattern is
\* f'`([^{{]*)({{{{RST_URL_{placeholder_id}}}}})`_'
RestoreUrl(text, e) ==
    ReplaceMatches(text, text,
        FindIter(<<Lit(<<BQ>>), Open(1), NStar({"{"}), Close(1),
                   Open(2), Lit(Token("url", e.id)), Close(2), Lit(<<BQ, "_">>)>>,
                 text, 1),
        LAMBDA m : <<BQ>> \o Strip(Group(text, m, 1)) \o <<" ", "<">>
                       \o e.url \o <<">", BQ, "_">>)

\* for placeholder_id, ref_data in placeholders.items(), once for each type
\* of types from the t-th on, the entries from the k-th on (lines 611-714;
\* no pattern of an entry matches in an empty text)
RECURSIVE RestoreLoop(_, _, _, _, _)
RestoreLoop(text, table, types, t, k) ==
    IF text = <<>> \/ t > Len(types) THEN text
    ELSE IF k > Len(table) THEN RestoreLoop(text, table, types, t + 1, 1)
    ELSE RestoreLoop(
           IF table[k].type # types[t] THEN text
           ELSE CASE types[t] = "complex" -> RestoreComplex(text, table[k])
                  [] types[t] = "url" -> RestoreUrl(text, table[k])
                  [] OTHER -> StrReplace(text, Token(types[t], table[k].id),
                                         table[k].full, 1),
           table, types, t, k + 1)

\* ':ref:`notices and slips tool <notices-and-slips-label>`'
NoticesAndSlipsTool ==
    <<":","r","e","f",":",BQ,"n","o","t","i","c","e","s"," ","a",
    "n","d"," ","s","l","i","p","s"," ","t","o","o","l"," ","<",
    "n","o","t","i","c","e","s","-","a","n","d","-","s","l","i",
    "p","s","-","l","a","b","e","l",">",BQ>>
\* ':ref:`notices and slips <notices-and-slips-label>`'
NoticesAndSlips ==
    <<":","r","e","f",":",BQ,"n","o","t","i","c","e","s"," ","a",
    "n","d"," ","s","l","i","p","s"," ","<","n","o","t","i","c",
    "e","s","-","a","n","d","-","s","l","i","p","s","-","l","a",
    "b","e","l",">",BQ>>

\* text = re.sub(rule.pat, rule.tpl, text) for each rule of rules, in order
\* (every pattern of the program needs a character to match)
Rule(pat, tpl) == [pat |-> pat, tpl |-> tpl]

RECURSIVE ApplyRules(_, _, _)
ApplyRules(text, rules, k) ==
    IF text = <<>> \/ k > Len(rules) THEN text
    ELSE ApplyRules(ReSub(rules[k].pat, rules[k].tpl, text, 1), rules, k + 1)

\* the post-processing fixes (lines 716-744)
MustacheRules == <<
    \* re.sub(r'>`(:ref:`)', r'>` \1', text)
    Rule(<<Lit(<<">", BQ>>), Open(1), Lit(REF), Close(1)>>,
         <<TLit(<<">", BQ, " ">>), TGrp(1)>>),
    \* re.sub(r'label>``', r'label>`', text)
    Rule(<<Lit(<<"l","a","b","e","l",">",BQ,BQ>>)>>,
         <<TLit(<<"l","a","b","e","l",">",BQ>>)>>),
    \* re.sub(r'>``:ref:', r'>` :ref:', text)
    Rule(<<Lit(<<">", BQ, BQ>> \o RefColon)>>, <<TLit(<<">", BQ, " ">> \o RefColon)>>),
    \* re.sub(r'(:ref:`TICKET\_RESOLUTION[^`]+`)(`:ref:`catalog concerns)',
    \*        r'\1 and these will appear when marking \2', text)
    Rule(<<Open(1), Lit(<<":","r","e","f",":",BQ,"T","I","C","K","E","T","_","R","E",
              "S","O","L","U","T","I","O","N">>),
           NPlus({BQ}), Lit(<<BQ>>), Close(1),
           Open(2), Lit(<<BQ,":","r","e","f",":",BQ,"c","a","t","a","l","o","g"," ",
              "c","o","n","c","e","r","n","s">>),
           Close(2)>>,
         <<TGrp(1),
           TLit(<<" ","a","n","d"," ","t","h","e","s","e"," ","w","i","l","l",
              " ","a","p","p","e","a","r"," ","w","h","e","n"," ","m","a",
              "r","k","i","n","g"," ">>),
           TGrp(2)>>),
    \* re.sub(r':ref:`notices and slips tool <notices-and-slips-label>`',
    \*        r':ref:`notices and slips <notices-and-slips-label>`', text)
    Rule(<<Lit(NoticesAndSlipsTool)>>, <<TLit(NoticesAndSlips)>>),
    \* re.sub(r':ref:`TICKET\_RESOLUTION authorized[^<]*<',
    \*        r':ref:`TICKET\_RESOLUTION <', text) ; the pattern's \_ matches
    \* '_', the template's \_ stays a backslash and '_'
    Rule(<<Lit(<<":","r","e","f",":",BQ,"T","I","C","K","E","T","_","R","E",
              "S","O","L","U","T","I","O","N"," ","a","u","t","h","o","r",
              "i","z","e","d">>),
           NStar({"<"}), Lit(<<"<">>)>>,
         <<TLit(<<":","r","e","f",":",BQ,"T","I","C","K","E","T","\\","_","R",
              "E","S","O","L","U","T","I","O","N"," ","<">>)>>),
    \* re.sub(r':ref:`TICKET\_STATUS authorized[^<]*<',
    \*        r':ref:`TICKET\_STATUS <', text)
    Rule(<<Lit(<<":","r","e","f",":",BQ,"T","I","C","K","E","T","_","S","T",
              "A","T","U","S"," ","a","u","t","h","o","r","i","z","e","d">>),
           NStar({"<"}), Lit(<<"<">>)>>,
         <<TLit(<<":","r","e","f",":",BQ,"T","I","C","K","E","T","\\","_","S",
              "T","A","T","U","S"," ","<">>)>>) >>

\* restore_rst_references_from_mustache(text, placeholders)
restore_rst_references_from_mustache(text, placeholders) ==
    IF text = <<>> \/ placeholders = <<>> THEN text
    ELSE ApplyRules(
           RestoreLoop(text, placeholders, <<"complex", "simple", "subst", "url">>,
                       1, 1),
           MustacheRules, 1)

(***************************************************************************)
(* fix_rst_formatting                                                      *)
(***************************************************************************)
\* lines 375-385: the spaces inside emphasis and bold markers
FixMarkerRules == <<
    \* re.sub(r'\*\s+([^\*]+\*)', r'*\1', text)
    Rule(<<Lit(<<"*">>), Plus(Space), Open(1), NPlus({"*"}), Lit(<<"*">>), Close(1)>>,
         <<TLit(<<"*">>), TGrp(1)>>),
    \* re.sub(r'(\*[^\*]+)\s+\*', r'\1*', text)
    Rule(<<Open(1), Lit(<<"*">>), NPlus({"*"}), Close(1), Plus(Space), Lit(<<"*">>)>>,
         <<TGrp(1), TLit(<<"*">>)>>),
    \* re.sub(r'\*\*\s+([^\*]+\*\*)', r'**\1', text)
    Rule(<<Lit(<<"*","*">>), Plus(Space), Open(1), NPlus({"*"}), Lit(<<"*","*">>),
           Close(1)>>,
         <<TLit(<<"*","*">>), TGrp(1)>>),
    \* re.sub(r'(\*\*[^\*]+)\s+\*\*', r'\1**', text)
    Rule(<<Open(1), Lit(<<"*","*">>), NPlus({"*"}), Close(1), Plus(Space),
           Lit(<<"*","*">>)>>,
         <<TGrp(1), TLit(<<"*","*">>)>>) >>

\* for match in re.finditer(pat, text):
\*     text = text.replace(match.group(0), f"{mark}{match.group(1)}{tail}")
\* (the matches are those of the text the loop started with)
CloseMarkers(text, pat, mark, tail) ==
    ReplaceMatches(text, text, FindIter(pat, text, 1),
                   LAMBDA m : mark \o Group(text, m, 1) \o tail)

\* lines 401-406: the :ref: rules
FixRefRules == <<
    \* re.sub(r':ref:\s*`\s*([^<`]+)\s*<\s*([^>`]+)\s*>`', r':ref:`\1<\2>`', text)
    Rule(<<Lit(RefColon), Star(Space), Lit(<<BQ>>), Star(Space),
           Open(1), NPlus({"<", BQ}), Close(1), Star(Space), Lit(<<"<">>),
           Star(Space), Open(2), NPlus({">", BQ}), Close(2), Star(Space),
           Lit(<<">", BQ>>)>>,
         <<TLit(REF), TGrp(1), TLit(<<"<">>), TGrp(2), TLit(<<">", BQ>>)>>),
    \* re.sub(r':ref:\s*`\s*([^`]+)\s*`', r':ref:`\1`', text)
    Rule(<<Lit(RefColon), Star(Space), Lit(<<BQ>>), Star(Space),
           Open(1), NPlus({BQ}), Close(1), Star(Space), Lit(<<BQ>>)>>,
         <<TLit(REF), TGrp(1), TLit(<<BQ>>)>>) >>

\* lines 417-421: the spaces inside |name|
FixPipeRules == <<
    \* re.sub(r'\|\s+([^|\n]+)\s+\|', r'|\1|', text)
    Rule(<<Lit(<<"|">>), Plus(Space), Open(1), NPlus({"|", "\n"}), Close(1),
           Plus(Space), Lit(<<"|">>)>>,
         <<TLit(<<"|">>), TGrp(1), TLit(<<"|">>)>>),
    \* re.sub(r'\|\s+([^|\n]+)\|', r'|\1|', text)
    Rule(<<Lit(<<"|">>), Plus(Space), Open(1), NPlus({"|", "\n"}), Close(1),
           Lit(<<"|">>)>>,
         <<TLit(<<"|">>), TGrp(1), TLit(<<"|">>)>>),
    \* re.sub(r'\|([^|\n]+)\s+\|', r'|\1|', text)
    Rule(<<Lit(<<"|">>), Open(1), NPlus({"|", "\n"}), Close(1), Plus(Space),
           Lit(<<"|">>)>>,
         <<TLit(<<"|">>), TGrp(1), TLit(<<"|">>)>>) >>

\* lines 431-436: the hyperlink rules
FixUrlRules == <<
    \* re.sub(r'`([^`]+)\s*&lt;([^&>]+)&gt;`_', r'`\1 <\2>`_', text)
    Rule(<<Lit(<<BQ>>), Open(1), NPlus({BQ}), Close(1), Star(Space),
           Lit(<<"&","l","t",";">>), Open(2), NPlus({"&", ">"}), Close(2),
           Lit(<<"&","g","t",";">>), Lit(<<BQ, "_">>)>>,
         <<TLit(<<BQ>>), TGrp(1), TLit(<<" ", "<">>), TGrp(2), TLit(<<">", BQ, "_">>)>>),
    \* re.sub(r'`([^`<]+)<([^>]+)>`_', r'`\1 <\2>`_', text)
    Rule(<<Lit(<<BQ>>), Open(1), NPlus({BQ, "<"}), Close(1), Lit(<<"<">>),
           Open(2), NPlus({">"}), Close(2), Lit(<<">", BQ, "_">>)>>,
         <<TLit(<<BQ>>), TGrp(1), TLit(<<" ", "<">>), TGrp(2), TLit(<<">", BQ, "_">>)>>) >>

\* the steps of fix_rst_formatting from step k on (no step changes an
\* empty text)
RECURSIVE FixSteps(_, _)
FixSteps(text, k) ==
    IF text = <<>> \/ k > 8 THEN text
    ELSE FixSteps(
           CASE k = 1 -> ApplyRules(text, FixMarkerRules, 1)
             \* lines 388-392: r'\*\*([^\*]+)(?=[^\*]*$)' gets a closing '**'
             [] k = 2 -> CloseMarkers(text,
                    <<Lit(<<"*","*">>), Open(1), NPlus({"*"}), Close(1),
                      LookAhead(<< <<NStar({"*"}), Eos>> >>)>>,
                    <<"*","*">>, <<"*","*">>)
             \* lines 394-399: r'(?<!\*)\*(?!\*)([^\*]+)(?=[^\*]*$)' gets a
             \* closing '*'
             [] k = 3 -> CloseMarkers(text,
                    <<NegLookBehind({"*"}), Lit(<<"*">>),
                      NegLookAhead(<< <<Lit(<<"*">>)>> >>),
                      Open(1), NPlus({"*"}), Close(1),
                      LookAhead(<< <<NStar({"*"}), Eos>> >>)>>,
                    <<"*">>, <<"*">>)
             [] k = 4 -> ApplyRules(text, FixRefRules, 1)
             \* lines 408-415: r':ref:`([^`]*)\s+:ref:`' becomes
             \* f":ref:`{first_part}` :ref:`"
             [] k = 5 -> CloseMarkers(text,
                    <<Lit(REF), Open(1), NStar({BQ}), Close(1), Plus(Space),
                      Lit(REF)>>,
                    REF, <<BQ, " ">> \o REF)
             [] k = 6 -> ApplyRules(text, FixPipeRules, 1)
             \* lines 423-429: r'\|([^|\n]+)(?=[^|]*\n|[^|]*$)' gets a
             \* closing '|'
             [] k = 7 -> CloseMarkers(text,
                    <<Lit(<<"|">>), Open(1), NPlus({"|", "\n"}), Close(1),
                      LookAhead(<< <<NStar({"|"}), Lit(<<"\n">>)>>,
                                   <<NStar({"|"}), Eos>> >>)>>,
                    <<"|">>, <<"|">>)
             [] k = 8 -> ApplyRules(text, FixUrlRules, 1),
           k + 1)

\* fix_rst_formatting(text)
fix_rst_formatting(text) == FixSteps(text, 1)

(***************************************************************************)
(* preserve_rst_references (the older encoder)                             *)
(***************************************************************************)
\* 'ESCAPED_UNDERSCORE_'
ESCAPED_UNDERSCORE ==
    <<"E","S","C","A","P","E","D","_","U","N","D","E","R","S","C",
    "O","R","E","_">>
\* '[ESC_UNDERSCORE:'
ESC_UNDERSCORE ==
    <<"[","E","S","C","_","U","N","D","E","R","S","C","O","R","E",
    ":">>

\* re.sub(escaped_underscore_pattern, replace_escaped_underscore, text):
\* the j-th match (0-based) becomes '[ESC_UNDERSCORE:ESCAPED_UNDERSCORE_j]'
RECURSIVE EscapeFrom(_, _, _, _)
EscapeFrom(text, ms, j, from) ==
    IF j > Len(ms) THEN SubSeq(text, from, Len(text))
    ELSE SubSeq(text, from, ms[j].start - 1)
         \o ESC_UNDERSCORE \o ESCAPED_UNDERSCORE \o IntToStr(j - 1) \o <<"]">>
         \o EscapeFrom(text, ms, j + 1, ms[j].end)

\* the table entries written by replace_escaped_underscore (lines 762-770)
EscapeEntries(text, ms) ==
    [j \in 1..Len(ms) |->
       Entry(ESCAPED_UNDERSCORE \o IntToStr(j - 1), "escaped_underscore", <<>>,
             FALSE, <<>>, Group(text, ms[j], 0), <<>>, <<>>, <<>>)]

\* lines 794-809: a simple match is added unless its start or its end lies
\* in a reference collected before it
RECURSIVE AddSimpleRefs(_, _, _)
AddSimpleRefs(refs, ms, j) ==
    LET is_part_of_complex(m) ==
            \E n \in 1..Len(refs) :
                \/ (m.start >= refs[n].start /\ m.start < refs[n].end)
                \/ (m.end > refs[n].start /\ m.end <= refs[n].end)
    IN  IF j > Len(ms) THEN refs
        ELSE AddSimpleRefs(IF is_part_of_complex(ms[j]) THEN refs
                           ELSE refs \o RefsOf("simple", <<ms[j]>>), ms, j + 1)

\* all_refs after the sort (lines 777-823)
LegacyAllRefs(text) ==
    SortByStartDesc(
        AddSimpleRefs(
            \* r':ref:`([^<`]+)<([^>`]+)>`'
            RefsOf("complex",
                   FindIter(<<Lit(REF), Open(1), NPlus({"<", BQ}), Close(1),
                              Lit(<<"<">>), Open(2), NPlus({">", BQ}), Close(2),
                              Lit(<<">", BQ>>)>>, text, 1)),
            \* r':ref:`([^<`]+)`'
            FindIter(<<Lit(REF), Open(1), NPlus({"<", BQ}), Close(1), Lit(<<BQ>>)>>,
                     text, 1),
            1)
        \* r'\|([^|\n]+)\|'
        \o RefsOf("subst",
                  FindIter(<<Lit(<<"|">>), Open(1), NPlus({"|", "\n"}), Close(1),
                             Lit(<<"|">>)>>, text, 1)))

\* the token that stands for placeholder id (lines 855, 870, 885):
\* 'RST_REF_id', 'RST_SIMPLEREF_id', 'RST_SUBST_id'
LegacyToken(type, id) ==
    (CASE type = "complex" -> <<"R","S","T","_","R","E","F","_">>
       [] type = "simple" -> <<"R","S","T","_","S","I","M","P","L","E","R","E","F","_">>
       [] type = "subst" -> <<"R","S","T","_","S","U","B","S","T","_">>)
    \o id

\* the table entry of one reference (lines 830-881)
LegacyEntry(text, ref, id) ==
    LET g1 == Group(text, ref.match, 1)
        g2 == Group(text, ref.match, 2)
        full == Group(text, ref.match, 0)
    IN CASE ref.type = "complex" ->
              Entry(id, "complex", Strip(g1), g1 # <<>> /\ g1[Len(g1)] = " ",
                    <<"<">> \o g2 \o <<">", BQ>>, full, Strip(g2), <<>>, <<>>)
         [] ref.type = "simple" ->
              Entry(id, "simple", <<>>, FALSE, <<>>, full, Strip(g1), <<>>, <<>>)
         [] ref.type = "subst" ->
              Entry(id, "subst", <<>>, FALSE, <<>>, full, Strip(g1), <<>>, <<>>)

\* the loop of lines 826-886 from the i-th (0-based) reference on: the
\* offsets are those of the matches in text, the slices are taken from
\* preserved_text
RECURSIVE LegacyLoop(_, _, _, _, _)
LegacyLoop(text, refs, i, preserved_text, table) ==
    LET Step(ref, id) ==
            LegacyLoop(text, refs, i + 1,
                Take(preserved_text, ref.start - 1) \o LegacyToken(ref.type, id)
                    \o Drop(preserved_text, ref.end - 1),
                DictSet(table, LegacyEntry(text, ref, id)))
    IN  IF i >= Len(refs) THEN [preserved |-> preserved_text, placeholders |-> table]
        ELSE Step(refs[i + 1], PlaceholderId(refs[i + 1].type, i))

\* preserve_rst_references(text) -> (preserved_text, placeholders); the
\* escaped_underscore_pattern is r'\_(_*)', a run of '_'
preserve_rst_references(text) ==
    LET Escaped(ms) ==
            LegacyLoop(text, LegacyAllRefs(text), 0, EscapeFrom(text, ms, 1, 1),
                       EscapeEntries(text, ms))
    IN  IF text = <<>> THEN [preserved |-> text, placeholders |-> <<>>]
        ELSE Escaped(FindIter(<<Lit(<<"_">>), Open(1), Star({"_"}), Close(1)>>,
                              text, 1))

(***************************************************************************)
(* restore_rst_references (the older decoder)                              *)
(***************************************************************************)
\* lines 898-942, once for each type of types from the t-th on, the entries
\* from the k-th on; a token is made of letters, digits and '_' only, so
\* re.sub with the token as its pattern replaces the occurrences of the token
RECURSIVE LegacyRestoreLoop(_, _, _, _, _)
LegacyRestoreLoop(text, table, types, t, k) ==
    IF text = <<>> \/ t > Len(types) THEN text
    ELSE IF k > Len(table) THEN LegacyRestoreLoop(text, table, types, t + 1, 1)
    ELSE LegacyRestoreLoop(
           IF table[k].type # types[t] THEN text
           ELSE CASE types[t] = "complex" ->
                       StrReplace(text, LegacyToken("complex", table[k].id),
                                  REF \o table[k].display_text
                                  \o (IF table[k].has_space THEN <<" ">> ELSE <<>>)
                                  \o table[k].suffix, 1)
                  [] types[t] = "escaped_underscore" ->
                       StrReplace(text, ESC_UNDERSCORE \o table[k].id \o <<"]">>,
                                  table[k].full, 1)
                  [] OTHER ->
                       StrReplace(text, LegacyToken(types[t], table[k].id),
                                  table[k].full, 1),
           table, types, t, k + 1)

\* the re.sub rules of lines 964-1015, in order
LegacyFixupRules ==
    LET \* r':ref:`([^<`]+)<([^>`]+)' and r':ref:`\1<\2>`'
        Ref12 == <<Lit(REF), Open(1), NPlus({"<", BQ}), Close(1), Lit(<<"<">>),
                   Open(2), NPlus({">", BQ}), Close(2)>>
        Tpl12 == <<TLit(REF), TGrp(1), TLit(<<"<">>), TGrp(2), TLit(<<">", BQ>>)>>
    IN <<
    \* r':ref:`([^<`]+)<([^>`]+)>`([^<`]*)<\2>`' -> r':ref:`\1<\2>`\3'
    Rule(Ref12 \o <<Lit(<<">", BQ>>), Open(3), NStar({"<", BQ}), Close(3),
                    Lit(<<"<">>), BackRef(2), Lit(<<">", BQ>>)>>,
         Tpl12 \o <<TGrp(3)>>),
    \* r':ref:`([^<`]+)<([^>`]+)>`([a-zA-Z]+)' -> r':ref:`\1<\2>`'
    Rule(Ref12 \o <<Lit(<<">", BQ>>), Open(3), Plus(Alpha), Close(3)>>, Tpl12),
    \* r':ref:`([^<`]+)<([^>`]+)>`ns' -> r':ref:`\1<\2>`'
    Rule(Ref12 \o <<Lit(<<">", BQ, "n", "s">>)>>, Tpl12),
    \* r'temp:ref:`([^<`]+)<([^>`]+)>`' -> r':ref:`\1<\2>`'
    Rule(<<Lit(<<"t","e","m","p">>)>> \o Ref12 \o <<Lit(<<">", BQ>>)>>, Tpl12),
    \* r'a:ref:`([^<`]+)<([^>`]+)>`' -> r':ref:`\1<\2>`'
    Rule(<<Lit(<<"a">>)>> \o Ref12 \o <<Lit(<<">", BQ>>)>>, Tpl12),
    \* r':ref:`([^<`]+)<([^>`]+)`' -> r':ref:`\1<\2>`'
    Rule(Ref12 \o <<Lit(<<BQ>>)>>, Tpl12),
    \* r':ref:`([^<`]+)\s+([a-zA-Z]+)\s+<([^>`]+)>`' -> r':ref:`\1 <\3>`'
    Rule(<<Lit(REF), Open(1), NPlus({"<", BQ}), Close(1), Plus(Space),
           Open(2), Plus(Alpha), Close(2), Plus(Space), Lit(<<"<">>),
           Open(3), NPlus({">", BQ}), Close(3), Lit(<<">", BQ>>)>>,
         <<TLit(REF), TGrp(1), TLit(<<" ", "<">>), TGrp(3), TLit(<<">", BQ>>)>>),
    \* r':ref:`([^<`]+)<([^>`]+)>`([^<`]*?)-[^<`]*?>`' -> r':ref:`\1<\2>`\3'
    Rule(Ref12 \o <<Lit(<<">", BQ>>), Open(3), NStarLazy({"<", BQ}), Close(3),
                    Lit(<<"-">>), NStarLazy({"<", BQ}), Lit(<<">", BQ>>)>>,
         Tpl12 \o <<TGrp(3)>>),
    \* r':ref:`([^<`]+)<([^>`]+)>` <\2>`' -> r':ref:`\1<\2>`'
    Rule(Ref12 \o <<Lit(<<">", BQ, " ", "<">>), BackRef(2), Lit(<<">", BQ>>)>>,
         Tpl12),
    \* r':ref:`notices and slips <notices-and-slips-label>` tool' and
    \* r':ref:`notices and slips tool <notices-and-slips-label>`'
    \*   -> r':ref:`notices and slips <notices-and-slips-label>`'
    Rule(<<Lit(NoticesAndSlips \o <<" ","t","o","o","l">>)>>,
         <<TLit(NoticesAndSlips)>>),
    Rule(<<Lit(NoticesAndSlipsTool)>>, <<TLit(NoticesAndSlips)>>),
    \* r':ref:`catalog <manage-catalog-concerns-label>`'
    \*   -> r':ref:`catalog concerns <manage-catalog-concerns-label>`'
    Rule(<<Lit(<<":","r","e","f",":",BQ,"c","a","t","a","l","o","g"," ","<",
              "m","a","n","a","g","e","-","c","a","t","a","l","o","g","-",
              "c","o","n","c","e","r","n","s","-","l","a","b","e","l",">",
              BQ>>)>>,
         <<TLit(<<":","r","e","f",":",BQ,"c","a","t","a","l","o","g"," ","c",
              "o","n","c","e","r","n","s"," ","<","m","a","n","a","g","e",
              "-","c","a","t","a","l","o","g","-","c","o","n","c","e","r",
              "n","s","-","l","a","b","e","l",">",BQ>>)>>),
    \* r':ref:`TICKET_RESOLUTION authorized value category
    \*    <ticketresolution-av-category-label>`'
    \*   -> r':ref:`TICKET\_RESOLUTION <ticketresolution-av-category-label>`'
    Rule(<<Lit(<<":","r","e","f",":",BQ,"T","I","C","K","E","T","_","R","E",
              "S","O","L","U","T","I","O","N"," ","a","u","t","h","o","r",
              "i","z","e","d"," ","v","a","l","u","e"," ","c","a","t","e",
              "g","o","r","y"," ","<","t","i","c","k","e","t","r","e","s",
              "o","l","u","t","i","o","n","-","a","v","-","c","a","t","e",
              "g","o","r","y","-","l","a","b","e","l",">",BQ>>)>>,
         <<TLit(<<":","r","e","f",":",BQ,"T","I","C","K","E","T","\\","_","R",
              "E","S","O","L","U","T","I","O","N"," ","<","t","i","c","k",
              "e","t","r","e","s","o","l","u","t","i","o","n","-","a","v",
              "-","c","a","t","e","g","o","r","y","-","l","a","b","e","l",
              ">",BQ>>)>>) >>

\* the fix-ups at the end of restore_rst_references (lines 944-1015): the
\* two :ref: rules, the split of r':ref:`([^`]*):ref:`' into
\* f":ref:`{first_part}` :ref:`", then the rules above
LegacyFixups(text) ==
    ApplyRules(
        CloseMarkers(ApplyRules(text, FixRefRules, 1),
                     <<Lit(REF), Open(1), NStar({BQ}), Close(1), Lit(REF)>>,
                     REF, <<BQ, " ">> \o REF),
        LegacyFixupRules, 1)

\* restore_rst_references(text, placeholders)
restore_rst_references(text, placeholders) ==
    IF text = <<>> \/ placeholders = <<>> THEN text
    ELSE LegacyFixups(
           LegacyRestoreLoop(text, placeholders,
               <<"complex", "simple", "subst", "escaped_underscore">>, 1, 1))

(***************************************************************************)
(* The text units                                                          *)
(***************************************************************************)
\* the most references of a drawn unit, and its greatest length
MaxRefs == 2
MaxLen == 23

\* the reference forms of a unit
Forms == <<
    \* labeled reference, with and without a space before '<'
    <<":","r","e","f",":",BQ,"a"," ","<","l",">",BQ>>,
    <<":","r","e","f",":",BQ,"b","<","l",">",BQ>>,
    \* hyperlink, with and without a space before '<'
    <<BQ,"c"," ","<","u",">",BQ,"_">>,
    <<BQ,"c","<","u",">",BQ,"_">>,
    \* bare reference, substitution
    <<":","r","e","f",":",BQ,"l",BQ>>,
    <<"|","t","o","d","a","y","|">>,
    \* labeled reference with a substitution in its display text
    <<":","r","e","f",":",BQ,"a","|","s","|"," ","<","m",">",BQ>>,
    \* labeled reference with whitespace around its display text, and a
    \* line break in it
    <<":","r","e","f",":",BQ," ","a","\n","b"," ","<","m",">",BQ>>,
    \* labeled reference without display text
    <<":","r","e","f",":",BQ,"<","l",">",BQ>> >>

\* what stands between two references of a unit
Glue == {<<>>, <<" ">>}

\* units without a reference: empty, blank, a separator line, plain text
PlainTexts == {<<>>, <<" ">>, <<"=">>, <<"x", " ", "y">>}

\* the units the normalisation rules of the decoder name
SpecialTexts == {
    <<":","r","e","f",":",BQ,"n","o","t","i","c","e","s"," ","a",
    "n","d"," ","s","l","i","p","s"," ","t","o","o","l"," ","<",
    "n","o","t","i","c","e","s","-","a","n","d","-","s","l","i",
    "p","s","-","l","a","b","e","l",">",BQ>>,
    <<":","r","e","f",":",BQ,"T","I","C","K","E","T","_","S","T",
    "A","T","U","S"," ","a","u","t","h","o","r","i","z","e","d",
    " ","<","t",">",BQ>> }

\* the units of exactly n references
RECURSIVE TextsOf(_)
TextsOf(n) ==
    IF n = 0 THEN PlainTexts
    ELSE IF n = 1 THEN {Forms[i] : i \in 1..Len(Forms)}
    ELSE {t \in {a \o g \o Forms[i] :
                    a \in TextsOf(n - 1), g \in Glue, i \in 1..Len(Forms)} :
            Len(t) <= MaxLen}

Texts == UNION {TextsOf(n) : n \in 0..MaxRefs} \cup SpecialTexts

\* texts as a translation engine may return them, handed to the repair
\* methods
RepairTexts == {
    <<"*","a","*"," ","b">>,
    <<"*","*","a","*","*"," ","b">>,
    <<"*"," ","a","*">>,
    <<"|","a","|"," ","b">>,
    <<"|"," ","a"," ","|">>,
    <<":","r","e","f",":"," ",BQ,"a"," ","<","l",">",BQ>>,
    <<":","r","e","f",":",BQ,"a"," ","b"," ","c"," ","<","l",">",
    BQ>>,
    <<":","r","e","f",":",BQ,"a"," ","<","l",">",BQ,"n","s">>,
    <<BQ,"a"," ","&","l","t",";","u","&","g","t",";",BQ,"_">>,
    \* a reference of two words followed by 'ns', and the notices-and-slips
    \* reference followed by ' tool'
    <<":","r","e","f",":",BQ,"a"," ","b"," ","<","l",">",BQ,"n",
    "s">>,
    <<":","r","e","f",":",BQ,"n","o","t","i","c","e","s"," ","a",
    "n","d"," ","s","l","i","p","s"," ","<","n","o","t","i","c",
    "e","s","-","a","n","d","-","s","l","i","p","s","-","l","a",
    "b","e","l",">",BQ," ","t","o","o","l">>,
    \* a label in bold after a list number, and a label in italics, each
    \* directly followed by a word
    <<"2",".","*","*","a",":","*","*","b">>,
    <<"*","a",":","*","b">> }

(***************************************************************************)
(* The translation engine (DeepL), as translate_text sees it: it is sent   *)
(* the tagged text and returns a text in which one reference may have      *)
(* come back changed.                                                      *)
(***************************************************************************)
\* what the engine may do to a reference of a type
ModesOf(type) ==
    CASE type = "complex" -> {"translate", "lost_token", "lost_display",
                              "lost_prefix", "lost_backtick", "bare"}
      [] type = "url" -> {"translate", "lost_token", "lost_display"}
      [] OTHER -> {"lost_token"}

\* the engine's rendering of a display text: other words, and spaces around
Translated(display) ==
    IF display = <<>> THEN <<>> ELSE <<" ">> \o display \o <<"x", " ">>

\* one reference of the tagged text as the engine returns it
Damaged(e, mode) ==
    CASE e.type = "complex" ->
           (CASE mode = "translate" ->
                   REF \o Translated(e.display_text) \o Token("complex", e.id) \o <<BQ>>
              [] mode = "lost_token" -> REF \o e.display_text \o <<BQ>>
              [] mode = "lost_display" -> REF \o Token("complex", e.id) \o <<BQ>>
              [] mode = "lost_prefix" ->
                   e.display_text \o Token("complex", e.id) \o <<BQ>>
              [] mode = "lost_backtick" ->
                   RefColon \o e.display_text \o Token("complex", e.id) \o <<BQ>>
              [] mode = "bare" -> REF \o <<"<">> \o e.label \o <<">", BQ>>)
      [] e.type = "url" ->
           (CASE mode = "translate" ->
                   <<BQ>> \o Translated(e.link_text) \o Token("url", e.id) \o <<BQ, "_">>
              [] mode = "lost_token" -> <<BQ>> \o e.link_text \o <<BQ, "_">>
              [] mode = "lost_display" -> Token("url", e.id) \o <<BQ, "_">>)
      [] OTHER -> <<>>

\* result.text for the tagged text sent, reference k coming back as mode
\* says (k = 0: every reference comes back as it was sent)
EngineText(sent, table, k, mode) ==
    IF k = 0 THEN sent
    ELSE StrReplace(sent, MustacheTagged(table[k]), Damaged(table[k], mode), 1)

(***************************************************************************)
(* State                                                                   *)
(***************************************************************************)
VARIABLES
    text,          \* the unit translate_text is called with
    pc,            \* where the call stands
    cache,         \* the translations table: a set of <<source, translated>>
    all_refs,      \* the references the encoder collected
    tagged,        \* the encoder's text
    placeholders,  \* the encoder's table
    damage,        \* what the engine did: [k, mode]
    reply,         \* result.text of the engine
    restored,      \* the decoder's text
    returned,      \* what translate_text returned
    log,           \* the kinds of messages logged or printed
    po,            \* the msgstr of the unit in the PO file
    doc,           \* a text handed to one of the repair methods
    prev,          \* the text doc was computed from
    passes,        \* how often the method was applied
    other,         \* the text decoded with the table walked backwards
    units,         \* the entries process_manual goes through, file by file
    idx,           \* the entry process_manual has come to
    file,          \* the file process_manual works on
    options,       \* the options of the run: [disable_cache, translate_all]
    call,          \* the call of translate_text in progress
    cache_hits,    \* self.cache_hits
    counts,        \* success_count, skip_count, fail_count of the file
    totals,        \* total_success_count, total_skip_count, total_fail_count
    po_file,       \* the PO files: a set of <<file, msgid, msgstr, flags>>
    translations,  \* the translations table of translate.py: a set of rows
    added,         \* the translations add_to_cache was called with, by key
    request,       \* the last call of a function of translate.py
    now,           \* the day it is
    used,          \* the day a key's row was made or last found, by key
    supplied,      \* the table of the database of a connection of the caller
    po_path,       \* a PO file: whether it exists, and its entries in order
    rst_file       \* an RST file: whether it exists, and its lines

\* the variables of one call of translate_text and of the repair methods
unit_vars == <<text, pc, cache, all_refs, tagged, placeholders, damage, reply,
               restored, returned, log, po, doc, prev, passes>>
\* the variables of the comparison of decoding orders
order_vars == <<other>>
\* the variables of process_manual
batch_vars == <<units, idx, file, options, call, cache_hits, counts, totals,
                po_file>>
\* the variables of the cache of translate.py
tool_vars == <<po_path, rst_file>>
cache_vars == <<translations, added, request, now, used, supplied, tool_vars>>
\* the variables the actions of translate_text on one unit leave alone
more_vars == <<order_vars, batch_vars, cache_vars>>

vars == <<unit_vars, more_vars>>

\* no decoding order has been compared
OrderIdle == other = <<>>

\* the counters of a file, or of the run, at their start
NoCounts == [success |-> 0, skip |-> 0, fail |-> 0]
\* no call of translate_text is in progress
NoCall == [attempts |-> 0, engine_calls |-> 0, error |-> "none", exit |-> "none",
           cache |-> {}]
\* process_manual is not running
BatchIdle ==
    /\ units = <<>> /\ idx = 0 /\ file = 0
    /\ options = [disable_cache |-> FALSE, translate_all |-> FALSE]
    /\ call = NoCall /\ cache_hits = 0
    /\ counts = NoCounts /\ totals = NoCounts /\ po_file = {}

\* the return value None
None == <<"None">>

\* the language codes and the texts translate.py is called with
Langs == {<<"S", "V">>, <<"E", "N">>}
CacheTexts == {<<"a">>, <<"a", "|", "S", "V">>}
\* the keys of the cache: text, target_lang, source_lang
CacheKeys == {<<t, tl, <<"E", "N">> >> : t \in CacheTexts, tl \in Langs}
NoRequest == [op |-> "none"]
\* the cache of translate.py is empty and no function of it has been called
CacheIdle ==
    /\ translations = {}
    /\ added = [k \in CacheKeys |-> <<>>]
    /\ request = NoRequest
    /\ now = 0
    /\ used = [k \in CacheKeys |-> -1]
    /\ supplied = {}
    /\ po_path = [exists |-> FALSE, entries |-> <<>>]
    /\ rst_file = [exists |-> FALSE, lines |-> <<>>]

\* get_cached_translation(text, ...): the stored translation, or None
get_cached_translation(text_, table) ==
    IF \E c \in table : c[1] = text_
    THEN (CHOOSE c \in table : c[1] = text_)[2] ELSE None

\* cache_translation(text, ..., translated_text): INSERT OR REPLACE
cache_translation(text_, table, translated_text) ==
    {c \in table : c[1] # text_} \cup {<<text_, translated_text>>}

\* the cache is empty, or holds a translation of the unit stored by an
\* earlier run
Init ==
    /\ text \in Texts
    /\ pc = "call"
    /\ cache \in {{}, {<<text, <<"c","a","c","h","e","d">> >>}}
    /\ all_refs = <<>> /\ tagged = <<>> /\ placeholders = <<>>
    /\ damage = [k |-> 0, mode |-> "same"] /\ reply = <<>> /\ restored = <<>>
    /\ returned = None /\ log = {} /\ po = <<>>
    /\ doc = <<>> /\ prev = <<>> /\ passes = 0
    /\ OrderIdle /\ BatchIdle /\ CacheIdle

\* translate_text up to the call of the engine (lines 1077-1088)
TranslateTextCall ==
    LET Encoded(r) ==
            /\ tagged' = r.tagged
            /\ placeholders' = r.placeholders
    IN
    /\ pc = "call"
    /\ UNCHANGED <<text, cache, damage, reply, restored, po, doc, prev, passes>>
    /\ IF text = <<>> \/ Strip(text) = <<>> \/ Strip(text) = <<"=">>
       THEN /\ returned' = None /\ pc' = "done"
            /\ UNCHANGED <<all_refs, tagged, placeholders, log>>
       ELSE IF get_cached_translation(text, cache) \notin {None, <<>>}
       THEN /\ returned' = get_cached_translation(text, cache)
            /\ log' = log \cup {"cache_hit"}
            /\ pc' = "done"
            /\ UNCHANGED <<all_refs, tagged, placeholders>>
       ELSE /\ all_refs' = MustacheAllRefs(text)
            /\ Encoded(preserve_rst_references_with_mustache(text))
            /\ pc' = "engine"
            /\ UNCHANGED <<returned, log>>
    /\ UNCHANGED more_vars

\* the engine returns a result; translate_text decodes, repairs, caches and
\* returns it (lines 1121-1131)
TranslateTextReturn ==
    /\ pc = "engine"
    /\ \E k \in 0..Len(placeholders) :
         \E mode \in IF k = 0 THEN {"same"} ELSE ModesOf(placeholders[k].type) :
            /\ damage' = [k |-> k, mode |-> mode]
            /\ reply' = EngineText(tagged, placeholders, k, mode)
    /\ IF reply' # <<>>
       THEN /\ restored' = restore_rst_references_from_mustache(reply', placeholders)
            /\ returned' = fix_rst_formatting(restored')
            /\ cache' = cache_translation(text, cache, returned')
            /\ log' = log \cup {"cached"}
       ELSE /\ returned' = reply'
            /\ UNCHANGED <<restored, cache, log>>
    /\ pc' = "done"
    /\ UNCHANGED <<text, all_refs, tagged, placeholders, po, doc, prev, passes>>
    /\ UNCHANGED more_vars

\* the engine call ends in an exception that is no DeepLException
\* (lines 1141-1143)
TranslateTextError ==
    /\ pc = "engine"
    /\ returned' = None
    /\ log' = log \cup {"error"}
    /\ pc' = "done"
    /\ UNCHANGED <<text, cache, all_refs, tagged, placeholders, damage, reply,
                   restored, po, doc, prev, passes>>
    /\ UNCHANGED more_vars

\* process_manual stores what translate_text returned (lines 1596-1635)
ProcessManualStore ==
    /\ pc = "done"
    /\ IF returned \notin {None, <<>>}
       THEN /\ po' = returned
            /\ log' = log \cup {"translated"}
       ELSE UNCHANGED <<po, log>>
    /\ pc' = "stored"
    /\ UNCHANGED <<text, cache, all_refs, tagged, placeholders, damage, reply,
                   restored, returned, doc, prev, passes>>
    /\ UNCHANGED more_vars

Next ==
    \/ TranslateTextCall
    \/ TranslateTextReturn
    \/ TranslateTextError
    \/ ProcessManualStore

Spec == Init /\ [][Next]_vars

(***************************************************************************)
(* The encoders, decoders and repair methods called on their own           *)
(***************************************************************************)
\* the most applications of a method to its own output
MaxPasses == 2

ApiInit ==
    /\ text \in Texts \cup RepairTexts
    /\ pc = "api"
    /\ cache = {}
    /\ all_refs = <<>> /\ tagged = <<>> /\ placeholders = <<>>
    /\ damage = [k |-> 0, mode |-> "same"] /\ reply = <<>> /\ restored = <<>>
    /\ returned = None /\ log = {} /\ po = <<>>
    /\ doc = text /\ prev = text /\ passes = 0
    /\ OrderIdle /\ BatchIdle /\ CacheIdle

\* doc = fix_rst_formatting(doc)
FixRstFormatting ==
    /\ pc \in {"api", "fix"}
    /\ passes < MaxPasses
    /\ prev' = doc
    /\ doc' = fix_rst_formatting(doc)
    /\ passes' = passes + 1
    /\ pc' = "fix"
    /\ UNCHANGED <<text, cache, all_refs, tagged, placeholders, damage, reply,
                   restored, returned, log, po>>
    /\ UNCHANGED more_vars

\* preserved_text, placeholders = preserve_rst_references(text)
PreserveRstReferences ==
    LET Encoded(r) ==
            /\ tagged' = r.preserved
            /\ placeholders' = r.placeholders
    IN
    /\ pc = "api"
    /\ all_refs' = IF text = <<>> THEN <<>> ELSE LegacyAllRefs(text)
    /\ Encoded(preserve_rst_references(text))
    /\ pc' = "preserved"
    /\ UNCHANGED <<text, cache, damage, reply, restored, returned, log, po, doc,
                   prev, passes>>
    /\ UNCHANGED more_vars

\* doc = restore_rst_references(doc, placeholders), first on the preserved
\* text, then on its own output
RestoreRstReferences ==
    /\ pc \in {"preserved", "restore"}
    /\ passes < MaxPasses
    /\ prev' = IF pc = "preserved" THEN text ELSE doc
    /\ doc' = restore_rst_references(IF pc = "preserved" THEN tagged ELSE doc,
                                     placeholders)
    /\ passes' = passes + 1
    /\ pc' = "restore"
    /\ UNCHANGED <<text, cache, all_refs, tagged, placeholders, damage, reply,
                   restored, returned, log, po>>
    /\ UNCHANGED more_vars

ApiNext ==
    \/ FixRstFormatting
    \/ PreserveRstReferences
    \/ RestoreRstReferences

ApiSpec == ApiInit /\ [][ApiNext]_vars


(***************************************************************************)
(* translate.py: the cache of translations and translate_text              *)
(***************************************************************************)
\* the translations add_to_cache is called with, and the results of the
\* engine
AddedTexts == {<<>>, <<"x">>}
EngineResults == {<<>>, <<"y">>}

\* get_cache_hash: md5, taken to be injective, of the text and the language
\* codes joined with a bar
get_cache_hash(text_, target_lang, source_lang) ==
    text_ \o <<"|">> \o target_lang \o <<"|">> \o source_lang

\* get_from_cache: the translated_text of the row with the hash, or None
get_from_cache(rows, text_, target_lang, source_lang) ==
    LET cache_hash == get_cache_hash(text_, target_lang, source_lang)
    IN  IF \E r \in rows : r.hash = cache_hash
        THEN (CHOOSE r \in rows : r.hash = cache_hash).translated_text
        ELSE None

\* a lookup that leaves the timestamp as it is
NotMarked(rows, cache_hash, now_) == rows

\* mark_cache_entry_used: created_at of the row with the hash becomes the
\* time it is
mark_cache_entry_used(rows, cache_hash, now_) ==
    {IF r.hash = cache_hash THEN [r EXCEPT !.created_at = now_] ELSE r : r \in rows}

\* an insert that leaves a row with the same hash as it is
InsertOnly(rows, text_, target_lang, source_lang, translated_text, now_) ==
    LET cache_hash == get_cache_hash(text_, target_lang, source_lang)
    IN  IF \E r \in rows : r.hash = cache_hash
        THEN rows
        ELSE rows \cup {[source_text |-> text_, target_lang |-> target_lang,
                         source_lang |-> source_lang,
                         translated_text |-> translated_text,
                         hash |-> cache_hash, created_at |-> now_]}

\* add_to_cache: INSERT, with created_at the time it is, and UPDATE of the
\* translated_text of the row with the hash when the hash, which is UNIQUE,
\* is in the table already
add_to_cache(rows, text_, target_lang, source_lang, translated_text, now_) ==
    LET cache_hash == get_cache_hash(text_, target_lang, source_lang)
    IN  IF \E r \in rows : r.hash = cache_hash
        THEN {IF r.hash = cache_hash
              THEN [r EXCEPT !.translated_text = translated_text]
              ELSE r : r \in rows}
        ELSE rows \cup {[source_text |-> text_, target_lang |-> target_lang,
                         source_lang |-> source_lang,
                         translated_text |-> translated_text,
                         hash |-> cache_hash, created_at |-> now_]}

\* the most calls of add_to_cache in a run
MaxAdds == 3

\* the number of calls of add_to_cache so far
RECURSIVE AddsOf(_)
AddsOf(keys) ==
    IF keys = {} THEN 0
    ELSE LET k == CHOOSE k \in keys : TRUE
         IN  Len(added[k]) + AddsOf(keys \ {k})
Adds == AddsOf(CacheKeys)

\* no unit is in translation
UnitIdle ==
    /\ text = <<>> /\ pc = "idle" /\ cache = {}
    /\ all_refs = <<>> /\ tagged = <<>> /\ placeholders = <<>>
    /\ damage = [k |-> 0, mode |-> "same"] /\ reply = <<>> /\ restored = <<>>
    /\ returned = None /\ log = {} /\ po = <<>>
    /\ doc = <<>> /\ prev = <<>> /\ passes = 0

TranslateInit == UnitIdle /\ OrderIdle /\ BatchIdle /\ CacheIdle

\* add_to_cache(text, target_lang, source_lang, translated_text)
AddToCache ==
    /\ Adds < MaxAdds
    /\ \E k \in CacheKeys : \E t \in AddedTexts :
          /\ translations' = add_to_cache(translations, k[1], k[2], k[3], t, now)
          /\ added' = [added EXCEPT ![k] = Append(@, t)]
          /\ used' = IF get_from_cache(translations, k[1], k[2], k[3]) = None
                     THEN [used EXCEPT ![k] = now] ELSE used
          /\ request' = [op |-> "add_to_cache", key |-> k, translated_text |-> t]
    /\ UNCHANGED <<now, supplied>>
    /\ UNCHANGED <<unit_vars, order_vars, batch_vars, tool_vars>>

\* get_from_cache(text, target_lang, source_lang)
GetFromCache ==
    /\ \E k \in CacheKeys :
          /\ request' = [op |-> "get_from_cache", key |-> k,
                         result |-> get_from_cache(translations, k[1], k[2], k[3])]
          /\ translations' = mark_cache_entry_used(
                                translations, get_cache_hash(k[1], k[2], k[3]), now)
          /\ used' = IF get_from_cache(translations, k[1], k[2], k[3]) = None
                     THEN used ELSE [used EXCEPT ![k] = now]
    /\ UNCHANGED <<added, now, supplied>>
    /\ UNCHANGED <<unit_vars, order_vars, batch_vars, tool_vars>>

\* translate_text(text, target_lang, source_lang, disable_cache) of
\* translate.py for a string, returning a translation (lines 341-378)
CacheTranslateText ==
    /\ \E k \in CacheKeys : \E disable_cache \in {d \in BOOLEAN : d \/ Adds < MaxAdds} :
          LET cached_translation ==
                  IF disable_cache THEN None
                  ELSE get_from_cache(translations, k[1], k[2], k[3])
          IN  IF cached_translation \notin {None, <<>>}
              THEN /\ request' = [op |-> "translate_text", key |-> k,
                                  disable_cache |-> disable_cache,
                                  cached_translation |-> cached_translation,
                                  engine_calls |-> 0,
                                  result |-> cached_translation]
                   /\ translations' = mark_cache_entry_used(
                                         translations,
                                         get_cache_hash(k[1], k[2], k[3]), now)
                   /\ used' = [used EXCEPT ![k] = now]
                   /\ UNCHANGED added
              ELSE \E translated_text \in EngineResults :
                   /\ request' = [op |-> "translate_text", key |-> k,
                                  disable_cache |-> disable_cache,
                                  cached_translation |-> cached_translation,
                                  engine_calls |-> 1,
                                  result |-> translated_text]
                   /\ IF disable_cache
                      THEN UNCHANGED <<translations, added, used>>
                      ELSE /\ translations' =
                                  add_to_cache(
                                      mark_cache_entry_used(
                                          translations,
                                          get_cache_hash(k[1], k[2], k[3]), now),
                                      k[1], k[2], k[3], translated_text, now)
                           /\ added' = [added EXCEPT ![k] = Append(@, translated_text)]
                           /\ used' = [used EXCEPT ![k] = now]
    /\ UNCHANGED <<now, supplied>>
    /\ UNCHANGED <<unit_vars, order_vars, batch_vars, tool_vars>>

\* translate_text of translate.py when the engine raises: the exception is
\* printed and raised again (lines 380-383)
CacheTranslateTextRaises ==
    /\ \E k \in CacheKeys : \E disable_cache \in BOOLEAN :
          LET cached_translation ==
                  IF disable_cache THEN None
                  ELSE get_from_cache(translations, k[1], k[2], k[3])
          IN  /\ cached_translation \in {None, <<>>}
              /\ request' = [op |-> "translate_text", key |-> k,
                             disable_cache |-> disable_cache,
                             cached_translation |-> cached_translation,
                             engine_calls |-> 1,
                             result |-> <<"Exception">>]
              /\ translations' =
                     IF disable_cache THEN translations
                     ELSE mark_cache_entry_used(
                              translations, get_cache_hash(k[1], k[2], k[3]), now)
              /\ used' = IF cached_translation = None THEN used
                         ELSE [used EXCEPT ![k] = now]
    /\ UNCHANGED <<added, now, supplied>>
    /\ UNCHANGED <<unit_vars, order_vars, batch_vars, tool_vars>>

TranslateNext ==
    \/ AddToCache
    \/ GetFromCache
    \/ CacheTranslateText
    \/ CacheTranslateTextRaises

TranslateSpec == TranslateInit /\ [][TranslateNext]_vars

\* ---------------------------------------------------------------------------
\* translate.py: the eviction of cache rows by age
\* ---------------------------------------------------------------------------

\* the most days that pass in a run
MaxDays == 2

\* delete_unused_cache_entries: DELETE FROM translations WHERE created_at <
\* datetime('now', '-<days_old> days'); what is left of the table
delete_unused_cache_entries(rows, days_old, now_) ==
    {r \in rows : ~(r.created_at < now_ - days_old)}

\* a day passes between two calls
DayPasses ==
    /\ now < MaxDays
    /\ now' = now + 1
    /\ request' = NoRequest
    /\ UNCHANGED <<translations, added, used, supplied>>
    /\ UNCHANGED <<unit_vars, order_vars, batch_vars, tool_vars>>

\* delete_unused_cache_entries(days_old): the rows are deleted and
\* cursor.rowcount, the number of deleted rows, is returned
DeleteUnusedCacheEntries ==
    /\ \E days_old \in 0..MaxDays :
          /\ translations' = delete_unused_cache_entries(translations, days_old, now)
          /\ request' = [op |-> "delete_unused_cache_entries",
                         days_old |-> days_old,
                         result |-> Cardinality(translations)
                                    - Cardinality(delete_unused_cache_entries(
                                                      translations, days_old, now))]
    /\ UNCHANGED <<added, used, now, supplied>>
    /\ UNCHANGED <<unit_vars, order_vars, batch_vars, tool_vars>>

EvictNext ==
    \/ AddToCache
    \/ GetFromCache
    \/ DayPasses
    \/ DeleteUnusedCacheEntries

EvictSpec == TranslateInit /\ [][EvictNext]_vars

\* ---------------------------------------------------------------------------
\* translate.py: translate_text with a list and with a connection of the caller
\* ---------------------------------------------------------------------------

\* the most items of a list
MaxItems == 2

\* the string branch of translate_text (lines 341-378) for the key k with the
\* connection conn: "given" is the connection of the caller, and with "None"
\* the function opens the default database with init_cache_db().  st holds
\* the two tables, the history of the default table, the returned texts and
\* the number of calls of the engine; translated_text is what the engine
\* gives when it is called.
translate_text_str(st, k, disable_cache, conn, translated_text, now_) ==
    LET rows == IF conn = "given" THEN st.supplied ELSE st.translations
        cache_hash == get_cache_hash(k[1], k[2], k[3])
        cached_translation ==
            IF disable_cache THEN None ELSE get_from_cache(rows, k[1], k[2], k[3])
        stored ==
            IF disable_cache THEN rows
            ELSE IF cached_translation \notin {None, <<>>}
            THEN mark_cache_entry_used(rows, cache_hash, now_)
            ELSE add_to_cache(mark_cache_entry_used(rows, cache_hash, now_),
                              k[1], k[2], k[3], translated_text, now_)
        engine_called == cached_translation \in {None, <<>>}
    IN  [translations |-> IF conn = "given" THEN st.translations ELSE stored,
         supplied |-> IF conn = "given" THEN stored ELSE st.supplied,
         added |-> IF conn # "given" /\ ~disable_cache /\ engine_called
                   THEN [st.added EXCEPT ![k] = Append(@, translated_text)]
                   ELSE st.added,
         used |-> IF conn # "given" /\ ~disable_cache
                  THEN [st.used EXCEPT ![k] = now_]
                  ELSE st.used,
         results |-> Append(st.results,
                            IF engine_called THEN translated_text
                            ELSE cached_translation),
         engine_calls |-> st.engine_calls + (IF engine_called THEN 1 ELSE 0)]

\* the list branch of translate_text (lines 320-339) from item i on:
\* local_conn is a connection from init_cache_db() when the cache is on and
\* the caller gave no connection, and None otherwise; every item is
\* translated with conn = local_conn if not disable_cache else None
RECURSIVE translate_text_list(_, _, _, _, _, _, _, _, _)
translate_text_list(st, items, i, target_lang, source_lang, disable_cache, conn, engine, now_) ==
    LET local_conn == IF ~disable_cache /\ conn = "None" THEN "default" ELSE "None"
    IN  IF i > Len(items) THEN st
        ELSE translate_text_list(
                 translate_text_str(st, <<items[i], target_lang, source_lang>>,
                                    disable_cache,
                                    IF ~disable_cache THEN local_conn ELSE "None",
                                    engine[i], now_),
                 items, i + 1, target_lang, source_lang, disable_cache, conn,
                 engine, now_)

\* translate_text(text, 'SV', 'EN', disable_cache, conn) with a list
TranslateTextList ==
    /\ \E n \in 0..MaxItems : \E items \in [1..n -> CacheTexts] :
       \E target_lang \in {<<"S", "V">>} : \E disable_cache \in BOOLEAN :
       \E conn \in {"None", "given"} : \E engine \in [1..n -> EngineResults] :
          /\ disable_cache \/ Adds + n <= MaxAdds
          /\ LET st == translate_text_list(
                           [translations |-> translations, supplied |-> supplied,
                            added |-> added, used |-> used,
                            results |-> <<>>, engine_calls |-> 0],
                           items, 1, target_lang, <<"E", "N">>, disable_cache,
                           conn, engine, now)
             IN  /\ translations' = st.translations
                 /\ supplied' = st.supplied
                 /\ added' = st.added
                 /\ used' = st.used
                 /\ request' = [op |-> "translate_text", text |-> items,
                                target_lang |-> target_lang,
                                isinstance_list |-> TRUE,
                                disable_cache |-> disable_cache, conn |-> conn,
                                engine_calls |-> st.engine_calls,
                                result |-> st.results]
    /\ UNCHANGED now
    /\ UNCHANGED <<unit_vars, order_vars, batch_vars, tool_vars>>

\* translate_text(text, 'SV', 'EN', disable_cache, conn) with a string
\* and a connection of the caller
TranslateTextConn ==
    /\ \E k \in {key \in CacheKeys : key[2] = <<"S", "V">>} :
       \E disable_cache \in BOOLEAN : \E translated_text \in EngineResults :
          LET st == translate_text_str(
                        [translations |-> translations, supplied |-> supplied,
                         added |-> added, used |-> used,
                         results |-> <<>>, engine_calls |-> 0],
                        k, disable_cache, "given", translated_text, now)
          IN  /\ translations' = st.translations
              /\ supplied' = st.supplied
              /\ added' = st.added
              /\ used' = st.used
              /\ request' = [op |-> "translate_text", text |-> k[1],
                             target_lang |-> k[2],
                             isinstance_list |-> FALSE,
                             disable_cache |-> disable_cache, conn |-> "given",
                             engine_calls |-> st.engine_calls,
                             result |-> st.results[1]]
    /\ UNCHANGED now
    /\ UNCHANGED <<unit_vars, order_vars, batch_vars, tool_vars>>

ListNext ==
    \/ TranslateTextList
    \/ TranslateTextConn

ListSpec == TranslateInit /\ [][ListNext]_vars

\* ---------------------------------------------------------------------------
\* translator.py: reorder_po_file
\* ---------------------------------------------------------------------------

\* the most entries of a PO file and the most lines of an RST file
MaxEntries == 2
MaxLines == 2

\* normalize_text: the stripped lines of the text that are not empty, joined
\* with one space (the parts of a reference that runs over several lines are
\* joined with one space as well, and normalized_text is not used)
normalize_text(text_) ==
    LET \* text.split('\n')
        RECURSIVE split(_, _)
        split(s, sep) ==
            IF \E p \in 1..Len(s) : s[p] = sep
            THEN LET p == Min({n \in 1..Len(s) : s[n] = sep})
                 IN  <<SubSeq(s, 1, p - 1)>> \o split(SubSeq(s, p + 1, Len(s)), sep)
            ELSE <<s>>
        \* ' '.join(lines)
        RECURSIVE join(_)
        join(lines) ==
            IF lines = <<>> THEN <<>>
            ELSE IF Len(lines) = 1 THEN lines[1]
            ELSE lines[1] \o <<" ">> \o join(Tail(lines))
        stripped == [i \in 1..Len(split(text_, "\n")) |-> Strip(split(text_, "\n")[i])]
    IN  IF text_ = <<>> THEN text_
        ELSE join(SelectSeq(stripped, LAMBDA line : line # <<>>))

\* extract_strings_from_rst: the stripped lines that are not empty, start
\* with neither '..' nor ':' and do not match ^[\^\~\=\-\.\*]+$
extract_strings_from_rst(lines) ==
    LET stripped == [i \in 1..Len(lines) |-> Strip(lines[i])]
        Keep(line) ==
            /\ line # <<>>
            /\ ~(Len(line) >= 2 /\ SubSeq(line, 1, 2) = <<".", ".">>)
            /\ line[1] # ":"
            /\ \E p \in 1..Len(line) : line[p] \notin {"^", "~", "=", "-", ".", "*"}
    IN  SelectSeq(stripped, Keep)

\* reorder_po_file, lines 1245-1266: the entries of new_po
reorder_po_file(entries, rst_strings) ==
    LET \* entries_by_msgid: the keys in the order of their first entry, the
        \* value of a key is its last entry
        first == {i \in 1..Len(entries) :
                    \A j \in 1..(i - 1) : entries[j].msgid # entries[i].msgid}
        ByMsgid(msgid) ==
            entries[Max({i \in 1..Len(entries) : entries[i].msgid = msgid})]
        RECURSIVE loop(_, _, _)
        loop(n, new_po, added_msgids) ==
            IF n > Len(rst_strings) THEN [new_po |-> new_po, added |-> added_msgids]
            ELSE LET string == rst_strings[n]
                     normalized == {i \in first :
                                      /\ normalize_text(entries[i].msgid)
                                            = normalize_text(string)
                                      /\ entries[i].msgid \notin added_msgids}
                 IN  IF \E i \in first : entries[i].msgid = string
                     THEN loop(n + 1, Append(new_po, ByMsgid(string)),
                               added_msgids \cup {string})
                     ELSE IF normalized # {}
                     THEN loop(n + 1,
                               Append(new_po, ByMsgid(entries[Min(normalized)].msgid)),
                               added_msgids \cup {entries[Min(normalized)].msgid})
                     ELSE loop(n + 1, new_po, added_msgids)
        done == loop(1, <<>>, {})
    IN  done.new_po \o SelectSeq(entries, LAMBDA entry : entry.msgid \notin done.added)

\* a PO file whose msgids, of 'a', 'b' and 'a\nb', are all different, and an
\* RST file with lines of 'a', 'b', 'a b', ' a', '', '..a', ':a' and '==', or
\* one of the files missing
ReorderInit ==
    /\ UnitIdle /\ OrderIdle /\ BatchIdle
    /\ translations = {}
    /\ added = [k \in CacheKeys |-> <<>>]
    /\ request = NoRequest
    /\ now = 0
    /\ used = [k \in CacheKeys |-> -1]
    /\ supplied = {}
    /\ \E n \in 0..MaxEntries : \E msgids \in [1..n -> {<<"a">>, <<"b">>, <<"a", "\n", "b">>}] :
          /\ \A i, j \in 1..n : msgids[i] = msgids[j] => i = j
          /\ \E exists \in {e \in BOOLEAN : e \/ n = 0} :
                po_path = [exists |-> exists,
                           entries |-> [i \in 1..n |->
                                           [msgid |-> msgids[i], msgstr |-> <<"x">>]]]
    /\ \E n \in 0..MaxLines :
       \E lines \in [1..n -> {<<"a">>, <<"b">>, <<"a", " ", "b">>, <<" ", "a">>, <<>>,
                               <<".", ".", "a">>, <<":", "a">>, <<"=", "=">>}] :
       \E exists \in {e \in BOOLEAN : e \/ n = 0} :
          rst_file = [exists |-> exists, lines |-> lines]

\* reorder_po_file(po_path, rst_file)
ReorderPoFile ==
    /\ IF ~po_path.exists \/ ~rst_file.exists
       THEN /\ request' = [op |-> "reorder_po_file", result |-> FALSE]
            /\ UNCHANGED po_path
       ELSE /\ po_path' = [po_path EXCEPT !.entries =
                              reorder_po_file(@, extract_strings_from_rst(rst_file.lines))]
            /\ request' = [op |-> "reorder_po_file", result |-> TRUE]
    /\ UNCHANGED <<translations, added, now, used, supplied, rst_file>>
    /\ UNCHANGED <<unit_vars, order_vars, batch_vars>>

ReorderSpec == ReorderInit /\ [][ReorderPoFile]_vars

\* ---------------------------------------------------------------------------
\* fix_corrupted_refs.py
\* ---------------------------------------------------------------------------

\* the 25 patterns of fix_corrupted_references with their replacements
CorruptedRules ==
    LET \* r':ref:`([^<`]+)<([^>`]+)' and the f-string ':ref:`{1}<{2}`'
        Ref12 == <<Lit(REF), Open(1), NPlus({"<", BQ}), Close(1), Lit(<<"<">>),
                   Open(2), NPlus({">", BQ}), Close(2)>>
        Cut12 == <<TLit(REF), TGrp(1), TLit(<<"<">>), TGrp(2), TLit(<<BQ>>)>>
    IN <<
    \* r':ref:`([^<`]+)<([^>`]+)>`([a-zA-Z]+)' -> ':ref:`\1<\2`'   (pattern 1)
    Rule(Ref12 \o <<Lit(<<">", BQ>>), Open(3), Plus(Alpha), Close(3)>>, Cut12),
    \* r':ref:`([^<`]+)<([^>`]+)>`([^<`]*)<\2>`' -> ':ref:`\1<\2`\3'   (pattern 2)
    Rule(Ref12 \o <<Lit(<<">", BQ>>), Open(3), NStar({"<", BQ}), Close(3),
                    Lit(<<"<">>), BackRef(2), Lit(<<">", BQ>>)>>,
         Cut12 \o <<TGrp(3)>>),
    \* r':ref:`([^<`]+) a:ref:`' -> ':ref:`\1` :ref:`'   (pattern 3)
    Rule(<<Lit(REF), Open(1), NPlus({"<", BQ}), Close(1),
           Lit(<<" ", "a">> \o REF)>>,
         <<TLit(REF), TGrp(1), TLit(<<BQ, " ">> \o REF)>>),
    \* r':ref:`([^<`]+)<([^>`]+)>`([a-zA-Z]+\s+[a-zA-Z]+)' -> ':ref:`\1<\2` \3' when
    \* group 3 is not in group 1, and ':ref:`\1<\2`' when it is   (pattern 4)
    Rule(Ref12 \o <<Lit(<<">", BQ>>), Open(3), Plus(Alpha), Plus(Space),
                    Plus(Alpha), Close(3)>>,
         Cut12 \o <<TLit(<<" ">>), TGrp(3)>>),
    \* r':ref:`([^<`]+)<([^>`]+)>`ns' -> ':ref:`\1<\2`'   (pattern 5)
    Rule(Ref12 \o <<Lit(<<">", BQ, "n", "s">>)>>, Cut12),
    \* r'temp:ref:`([^<`]+)<([^>`]+)>`' -> ':ref:`\1<\2`'   (pattern 6)
    Rule(<<Lit(<<"t","e","m","p">>)>> \o Ref12 \o <<Lit(<<">", BQ>>)>>, Cut12),
    \* r':ref:`([^<`]+)<([^>`]+)>`\s+:ref:`\1<\2>`' -> ':ref:`\1<\2`'   (pattern 7)
    Rule(Ref12 \o <<Lit(<<">", BQ>>), Plus(Space), Lit(REF), BackRef(1),
                    Lit(<<"<">>), BackRef(2), Lit(<<">", BQ>>)>>,
         Cut12),
    \* r':ref:`([^<`]+)<([^>`]+)`' -> ':ref:`\1<\2>`'   (pattern 8)
    Rule(Ref12 \o <<Lit(<<BQ>>)>>,
         <<TLit(REF), TGrp(1), TLit(<<"<">>), TGrp(2), TLit(<<">", BQ>>)>>),
    \* r':ref:`([^<`]+)\s+([a-zA-Z]+)\s+<([^>`]+)>`' -> ':ref:`\1 <\3>`'   (pattern 9)
    Rule(<<Lit(REF), Open(1), NPlus({"<", BQ}), Close(1), Plus(Space),
           Open(2), Plus(Alpha), Close(2), Plus(Space), Lit(<<"<">>),
           Open(3), NPlus({">", BQ}), Close(3), Lit(<<">", BQ>>)>>,
         <<TLit(REF), TGrp(1), TLit(<<" ", "<">>), TGrp(3), TLit(<<">", BQ>>)>>),
    \* r':ref:`([^<`]+)<([^>`]+)>`ips tool' -> ':ref:`\1<\2`'   (pattern 10)
    Rule(Ref12 \o <<Lit(<<">", BQ, "i", "p", "s", " ", "t", "o", "o", "l">>)>>, Cut12),
    \* r'temp:ref:`([^<`]+)<([^>`]+)>`([^<`]*?)' -> ':ref:`\1<\2`\3'   (pattern 11)
    Rule(<<Lit(<<"t","e","m","p">>)>> \o Ref12
              \o <<Lit(<<">", BQ>>), Open(3), NStarLazy({"<", BQ}), Close(3)>>,
         Cut12 \o <<TGrp(3)>>),
    \* r'a:ref:`([^<`]+)<([^>`]+)>`' -> ':ref:`\1<\2`'   (pattern 12)
    Rule(<<Lit(<<"a">>)>> \o Ref12 \o <<Lit(<<">", BQ>>)>>, Cut12),
    \* str.replace(old, new)   (pattern 13)
    Rule(<<Lit(<<":","r","e","f",":",BQ,"c","a","t","a","l","o","g"," ","<","c",
                "a","t","a","l","o","g","-","c","o","n","c","e","r","n","s","-",
                "l","a","b","e","l",">",BQ>>)>>,
         <<TLit(<<":","r","e","f",":",BQ,"c","a","t","a","l","o","g"," ","c","o",
                 "n","c","e","r","n","s"," ","<","c","a","t","a","l","o","g","-",
                 "c","o","n","c","e","r","n","s","-","l","a","b","e","l",">",BQ>>)>>),
    \* str.replace(old, new)   (pattern 14)
    Rule(<<Lit(<<":","r","e","f",":",BQ,"n","o","t","i","c","e","s"," ","a","n",
                "d"," ","<","n","o","t","i","c","e","s","-","a","n","d","-","s",
                "l","i","p","s","-","l","a","b","e","l",">",BQ>>)>>,
         <<TLit(<<":","r","e","f",":",BQ,"n","o","t","i","c","e","s"," ","a","n",
                 "d"," ","s","l","i","p","s"," ","<","n","o","t","i","c","e","s",
                 "-","a","n","d","-","s","l","i","p","s","-","l","a","b","e","l",
                 ">",BQ>>)>>),
    \* r':ref:`([^<`]+)<([^>`]+)>`([^<`]*?)-[^<`]*?>`' -> ':ref:`\1<\2`\3'   (pattern 15)
    Rule(Ref12 \o <<Lit(<<">", BQ>>), Open(3), NStarLazy({"<", BQ}), Close(3),
                    Lit(<<"-">>), NStarLazy({"<", BQ}), Lit(<<">", BQ>>)>>,
         Cut12 \o <<TGrp(3)>>),
    \* r':ref:`TICKET\_RESOLUTION ([^<`]+)<ticketresolution-av-category-label>`
    \*    -av-category-label>`'
    \*   -> ':ref:`TICKET\_RESOLUTION \1<ticketresolution-av-category-label>`'
    \*   (pattern 16)
    Rule(<<Lit(<<":","r","e","f",":",BQ,"T","I","C","K","E","T","_","R","E","S",
                  "O","L","U","T","I","O","N"," ">>),
           Open(1), NPlus({"<", BQ}), Close(1),
           Lit(<<"<","t","i","c","k","e","t","r","e","s","o","l","u","t","i","o",
                  "n","-","a","v","-","c","a","t","e","g","o","r","y","-","l","a",
                  "b","e","l",">",BQ,"-","a","v","-","c","a","t","e","g","o","r",
                  "y","-","l","a","b","e","l",">",BQ>>)>>,
         <<TLit(<<":","r","e","f",":",BQ,"T","I","C","K","E","T","\\","_","R","E",
                   "S","O","L","U","T","I","O","N"," ">>),
           TGrp(1),
           TLit(<<"<","t","i","c","k","e","t","r","e","s","o","l","u","t","i","o",
                   "n","-","a","v","-","c","a","t","e","g","o","r","y","-","l","a",
                   "b","e","l",">",BQ>>)>>),
    \* r':ref:`([^<`]+)<([^>`]+)>` <\2>`' -> ':ref:`\1<\2`'   (pattern 17)
    Rule(Ref12 \o <<Lit(<<">", BQ, " ", "<">>), BackRef(2), Lit(<<">", BQ>>)>>,
         Cut12),
    \* str.replace(old, new)   (pattern 18)
    Rule(<<Lit(<<":","r","e","f",":",BQ,"m","e","m","b","e","r","s","h","i","p",
                "\\","_","e","x","p","i","r","y",".","p","l"," ","<","c","r","o",
                "n","-","n","o","t","i","f","y","-","p","a","t","r","o","n","s",
                "-","o","f","-","e","x","p","i","r","a","t","i","o","n","-","l",
                "a","b","e","l",">",BQ,"-","p","a","t","r","o","n","s","-","o",
                "f","-","e","x","p","i","r","a","t","i","o","n","-","l","a","b",
                "e","l",">",BQ>>)>>,
         <<TLit(<<":","r","e","f",":",BQ,"m","e","m","b","e","r","s","h","i","p",
                 "\\","_","e","x","p","i","r","y",".","p","l"," ","<","c","r","o",
                 "n","-","n","o","t","i","f","y","-","p","a","t","r","o","n","s",
                 "-","o","f","-","e","x","p","i","r","a","t","i","o","n","-","l",
                 "a","b","e","l",">",BQ>>)>>),
    \* str.replace(old, new)   (pattern 19)
    Rule(<<Lit(<<":","r","e","f",":",BQ,"n","o","t","i","c","e","s"," ","a","n",
                "d"," ","s","l","i","p","s"," ","<","n","o","t","i","c","e","s",
                "-","a","n","d","-","s","l","i","p","s","-","l","a","b","e","l",
                ">",BQ," ","t","o","o","l">>)>>,
         <<TLit(<<":","r","e","f",":",BQ,"n","o","t","i","c","e","s"," ","a","n",
                 "d"," ","s","l","i","p","s"," ","<","n","o","t","i","c","e","s",
                 "-","a","n","d","-","s","l","i","p","s","-","l","a","b","e","l",
                 ">",BQ>>)>>),
    \* str.replace(old, new)   (pattern 20)
    Rule(<<Lit(<<":","r","e","f",":",BQ,"n","o","t","i","c","e","s"," ","<","n",
                "o","t","i","c","e","s","-","a","n","d","-","s","l","i","p","s",
                "-","l","a","b","e","l",">",BQ>>)>>,
         <<TLit(<<":","r","e","f",":",BQ,"n","o","t","i","c","e","s"," ","a","n",
                 "d"," ","s","l","i","p","s"," ","<","n","o","t","i","c","e","s",
                 "-","a","n","d","-","s","l","i","p","s","-","l","a","b","e","l",
                 ">",BQ>>)>>),
    \* str.replace(old, new)   (pattern 21; the text of the condition is part of the replaced text)
    Rule(<<Lit(<<":","r","e","f",":",BQ,"T","I","C","K","E","T","\\","_","S","T",
                "A","T","U","S"," ","a","u","t","h","o","r","i","z","e","d"," ",
                "<","t","i","c","k","e","t","s","t","a","t","u","s","-","a","v",
                "-","c","a","t","e","g","o","r","y","-","l","a","b","e","l",">",
                BQ," "," ",":","r","e","f",":",BQ,"c","a","t","a","l","o","g"," ",
                "<","m","a","n","a","g","e","-","c","a","t","a","l","o","g","-",
                "c","o","n","c","e","r","n","s","-","l","a","b","e","l",">",BQ,
                " ",".">>)>>,
         <<TLit(<<":","r","e","f",":",BQ,"T","I","C","K","E","T","\\","_","S","T",
                 "A","T","U","S"," ","a","u","t","h","o","r","i","z","e","d"," ",
                 "v","a","l","u","e"," ","c","a","t","e","g","o","r","y"," ","<",
                 "t","i","c","k","e","t","s","t","a","t","u","s","-","a","v","-",
                 "c","a","t","e","g","o","r","y","-","l","a","b","e","l",">",BQ,
                 " ","o","c","h"," ","d","e","s","s","a"," ","k","o","m","m","e",
                 "r"," ","a","t","t"," ","v","i","s","a","s"," ","n","ä","r"," ",
                 "d","u"," ","u","p","p","d","a","t","e","r","a","r"," ",":","r",
                 "e","f",":",BQ,"c","a","t","a","l","o","g"," ","c","o","n","c",
                 "e","r","n","s"," ","<","m","a","n","a","g","e","-","c","a","t",
                 "a","l","o","g","-","c","o","n","c","e","r","n","s","-","l","a",
                 "b","e","l",">",BQ,".">>)>>),
    \* str.replace(old, new)   (pattern 22)
    Rule(<<Lit(<<":","r","e","f",":",BQ,"c","a","t","a","l","o","g"," ","<","m",
                "a","n","a","g","e","-","c","a","t","a","l","o","g","-","c","o",
                "n","c","e","r","n","s","-","l","a","b","e","l",">",BQ>>)>>,
         <<TLit(<<":","r","e","f",":",BQ,"c","a","t","a","l","o","g"," ","c","o",
                 "n","c","e","r","n","s"," ","<","m","a","n","a","g","e","-","c",
                 "a","t","a","l","o","g","-","c","o","n","c","e","r","n","s","-",
                 "l","a","b","e","l",">",BQ>>)>>),
    \* str.replace(old, new)   (pattern 23)
    Rule(<<Lit(<<":","r","e","f",":",BQ,"n","o","t","i","c","e","s"," ","a","n",
                "d"," ","s","l","i","p","s"," ","<","n","o","t","i","c","e","s",
                "-","a","n","d","-","s","l","i","p","s","-","l","a","b","e","l",
                ">",BQ," ","t","o","o","l">>)>>,
         <<TLit(<<":","r","e","f",":",BQ,"n","o","t","i","c","e","s"," ","a","n",
                 "d"," ","s","l","i","p","s"," ","<","n","o","t","i","c","e","s",
                 "-","a","n","d","-","s","l","i","p","s","-","l","a","b","e","l",
                 ">",BQ>>)>>),
    \* str.replace(old, new)   (pattern 24; the text of the condition is part of the replaced text)
    Rule(<<Lit(<<":","r","e","f",":",BQ,"T","I","C","K","E","T","\\","_","S","T",
                "A","T","U","S"," ","<","t","i","c","k","e","t","s","t","a","t",
                "u","s","-","a","v","-","c","a","t","e","g","o","r","y","-","l",
                "a","b","e","l",">",BQ," "," ",":","r","e","f",":",BQ,"c","a","t",
                "a","l","o","g"," ","c","o","n","c","e","r","n","s"," ","<","m",
                "a","n","a","g","e","-","c","a","t","a","l","o","g","-","c","o",
                "n","c","e","r","n","s","-","l","a","b","e","l",">",BQ," ",".">>)>>,
         <<TLit(<<":","r","e","f",":",BQ,"T","I","C","K","E","T","\\","_","S","T",
                 "A","T","U","S"," ","a","u","t","h","o","r","i","z","e","d"," ",
                 "v","a","l","u","e"," ","c","a","t","e","g","o","r","y"," ","<",
                 "t","i","c","k","e","t","s","t","a","t","u","s","-","a","v","-",
                 "c","a","t","e","g","o","r","y","-","l","a","b","e","l",">",BQ,
                 " ","o","c","h"," ","d","e","s","s","a"," ","k","o","m","m","e",
                 "r"," ","a","t","t"," ","v","i","s","a","s"," ","n","ä","r"," ",
                 "d","u"," ","u","p","p","d","a","t","e","r","a","r"," ",":","r",
                 "e","f",":",BQ,"c","a","t","a","l","o","g"," ","c","o","n","c",
                 "e","r","n","s"," ","<","m","a","n","a","g","e","-","c","a","t",
                 "a","l","o","g","-","c","o","n","c","e","r","n","s","-","l","a",
                 "b","e","l",">",BQ,".">>)>>),
    \* str.replace(old, new)   (pattern 25; the text of the condition is part of the replaced text)
    Rule(<<Lit(<<":","r","e","f",":",BQ,"T","I","C","K","E","T","\\","_","R","E",
                "S","O","L","U","T","I","O","N"," ","a","u","k","t","o","r","i",
                "s","e","r","a","t"," ","v","ä","r","d","e"," ","<","t","i","c",
                "k","e","t","r","e","s","o","l","u","t","i","o","n","-","a","v",
                "-","c","a","t","e","g","o","r","y","-","l","a","b","e","l",">",
                BQ," ",":","r","e","f",":",BQ,"c","a","t","a","l","o","g"," ","c",
                "o","n","c","e","r","n","s"," ","<","m","a","n","a","g","e","-",
                "c","a","t","a","l","o","g","-","c","o","n","c","e","r","n","s",
                "-","l","a","b","e","l",">",BQ," "," ","s","o","m"," ","\"","R",
                "e","s","o","l","v","e","d","\"",".">>)>>,
         <<TLit(<<":","r","e","f",":",BQ,"T","I","C","K","E","T","\\","_","R","E",
                 "S","O","L","U","T","I","O","N"," ","<","t","i","c","k","e","t",
                 "r","e","s","o","l","u","t","i","o","n","-","a","v","-","c","a",
                 "t","e","g","o","r","y","-","l","a","b","e","l",">",BQ," ","o",
                 "c","h"," ","d","e","s","s","a"," ","k","o","m","m","e","r"," ",
                 "a","t","t"," ","v","i","s","a","s"," ","n","ä","r"," ","d","u",
                 " ","m","a","r","k","e","r","a","r"," ",":","r","e","f",":",BQ,
                 "c","a","t","a","l","o","g"," ","c","o","n","c","e","r","n","s",
                 " ","<","m","a","n","a","g","e","-","c","a","t","a","l","o","g",
                 "-","c","o","n","c","e","r","n","s","-","l","a","b","e","l",">",
                 BQ," ","s","o","m"," ","\"","R","e","s","o","l","v","e","d","\"",
                 ".">>)>>) >>

\* a save whenever an entry was found to need a fix
SavesChanges(changes_made, dry_run) == changes_made

\* if changes_made and not dry_run: po.save(po_file_path)
Saves(changes_made, dry_run) == changes_made /\ ~dry_run

\* fix_corrupted_references(po_file_path, dry_run) for a file that exists,
\* lines 25-250: the entries of po at the end, whether the file was saved,
\* and the returned value
fix_corrupted_references(entries, dry_run) ==
    LET \* re.sub(pattern4, fix_pattern4, s), the part of s from position from on
        RECURSIVE sub4(_, _)
        sub4(s, from) ==
            LET m == Search(CorruptedRules[4].pat, s, from)
            IN  IF ~m.ok THEN SubSeq(s, from, Len(s))
                ELSE SubSeq(s, from, m.start - 1)
                     \o Expand(IF Contains(Group(s, m, 1), Group(s, m, 3))
                               THEN CorruptedRules[1].tpl
                               ELSE CorruptedRules[4].tpl, 1, s, m)
                     \o sub4(s, m.end)
        fixed_msgstr(original_msgstr) ==
            ApplyRules(sub4(ApplyRules(original_msgstr,
                                       SubSeq(CorruptedRules, 1, 3), 1), 1),
                       CorruptedRules, 5)
        \* norm_original and norm_fixed
        norm(msgstr) ==
            ReplaceEach(
                Strip(ReSub(<<Plus(Space)>>, <<TLit(<<" ">>)>>, msgstr, 1)),
                << <<SubSeq(NoticesAndSlipsTool, 7, 28), SubSeq(NoticesAndSlips, 7, 23)>>,
                   << <<"T","I","C","K","E","T","\\","_","R","E","S","O","L","U","T",
                        "I","O","N"," ","a","u","t","h","o","r","i","z","e","d">>,
                      <<"T","I","C","K","E","T","\\","_","R","E","S","O","L","U","T",
                        "I","O","N">> >> >>, 1)
        \* the entries with an empty msgstr are passed over
        fixed == [i \in 1..Len(entries) |->
                     IF entries[i].msgstr = <<>> THEN <<>>
                     ELSE fixed_msgstr(entries[i].msgstr)]
        changed == {i \in 1..Len(entries) :
                      /\ entries[i].msgstr # <<>>
                      /\ norm(fixed[i]) # norm(entries[i].msgstr)}
    IN  [po |-> [i \in 1..Len(entries) |->
                    IF i \in changed /\ ~dry_run
                    THEN [entries[i] EXCEPT !.msgstr = fixed[i]]
                    ELSE entries[i]],
         saved |-> Saves(changed # {}, dry_run),
         result |-> changed # {}]

\* the msgstr of the entries: '', ':ref:`a<l>`ns', ':ref:`a b <l>`',
\* ':ref:`a <l>` x' and
\* ':ref:`notices and slips tool <notices-and-slips-label>`'
Msgstrs ==
    {<<>>,
     REF \o <<"a", "<", "l", ">", BQ, "n", "s">>,
     REF \o <<"a", " ", "b", " ", "<", "l", ">", BQ>>,
     REF \o <<"a", " ", "<", "l", ">", BQ, " ", "x">>,
     NoticesAndSlipsTool}

\* a PO file with at most MaxEntries entries, or no file
FixInit ==
    /\ UnitIdle /\ OrderIdle /\ BatchIdle
    /\ translations = {}
    /\ added = [k \in CacheKeys |-> <<>>]
    /\ request = NoRequest
    /\ now = 0
    /\ used = [k \in CacheKeys |-> -1]
    /\ supplied = {}
    /\ rst_file = [exists |-> FALSE, lines |-> <<>>]
    /\ \E n \in 0..MaxEntries : \E msgstrs \in [1..n -> Msgstrs] :
       \E exists \in {e \in BOOLEAN : e \/ n = 0} :
          po_path = [exists |-> exists,
                     entries |-> [i \in 1..n |->
                                     [msgid |-> IntToStr(i), msgstr |-> msgstrs[i]]]]

\* fix_corrupted_references(po_file_path, dry_run)
FixCorruptedReferences ==
    /\ \E dry_run \in BOOLEAN :
          IF ~po_path.exists
          THEN /\ request' = [op |-> "fix_corrupted_references", dry_run |-> dry_run,
                              po |-> <<>>, saved |-> FALSE, result |-> FALSE]
               /\ UNCHANGED po_path
          ELSE LET done == fix_corrupted_references(po_path.entries, dry_run)
               IN  /\ request' = [op |-> "fix_corrupted_references",
                                  dry_run |-> dry_run, po |-> done.po,
                                  saved |-> done.saved, result |-> done.result]
                   /\ po_path' = IF done.saved
                                 THEN [po_path EXCEPT !.entries = done.po]
                                 ELSE po_path
    /\ UNCHANGED <<translations, added, now, used, supplied, rst_file>>
    /\ UNCHANGED <<unit_vars, order_vars, batch_vars>>

FixSpec == FixInit /\ [][FixCorruptedReferences]_vars

(***************************************************************************)
(* The decoders called with the table in either order                      *)
(***************************************************************************)
\* a unit of eleven references: the placeholder ids run from ..._REF_0 to
\* ..._REF_10
ElevenSubstitutions ==
    <<"|","a","|"," ","|","b","|"," ","|","c","|"," ","|","d","|",
    " ","|","e","|"," ","|","f","|"," ","|","g","|"," ","|","h",
    "|"," ","|","i","|"," ","|","j","|"," ","|","k","|">>

OrderTexts == Texts \cup {ElevenSubstitutions}

\* the table with its entries in the opposite order
Reversed(table) == [j \in 1..Len(table) |-> table[Len(table) + 1 - j]]

OrderInit ==
    /\ text \in OrderTexts
    /\ pc = "order"
    /\ cache = {}
    /\ all_refs = <<>> /\ tagged = <<>> /\ placeholders = <<>>
    /\ damage = [k |-> 0, mode |-> "same"] /\ reply = <<>> /\ restored = <<>>
    /\ returned = None /\ log = {} /\ po = <<>>
    /\ doc = <<>> /\ prev = <<>> /\ passes = 0
    /\ other = <<>>
    /\ BatchIdle /\ CacheIdle

\* tagged_text, placeholders = preserve_rst_references_with_mustache(text)
OrderPreserveMustache ==
    LET Encoded(r) ==
            /\ tagged' = r.tagged
            /\ placeholders' = r.placeholders
    IN
    /\ pc = "order"
    /\ all_refs' = IF text = <<>> THEN <<>> ELSE MustacheAllRefs(text)
    /\ Encoded(preserve_rst_references_with_mustache(text))
    /\ pc' = "mustache"
    /\ UNCHANGED <<text, cache, damage, reply, restored, returned, log, po, doc,
                   prev, passes, other>>
    /\ UNCHANGED <<batch_vars, cache_vars>>

\* restore_rst_references_from_mustache(tagged_text, placeholders), with the
\* table as the encoder built it and with the same entries in the opposite
\* order
OrderRestoreMustache ==
    /\ pc = "mustache"
    /\ doc' = restore_rst_references_from_mustache(tagged, placeholders)
    /\ other' = restore_rst_references_from_mustache(tagged, Reversed(placeholders))
    /\ pc' = "mustache_restored"
    /\ UNCHANGED <<text, cache, all_refs, tagged, placeholders, damage, reply,
                   restored, returned, log, po, prev, passes>>
    /\ UNCHANGED <<batch_vars, cache_vars>>

\* preserved_text, placeholders = preserve_rst_references(text)
OrderPreserve ==
    LET Encoded(r) ==
            /\ tagged' = r.preserved
            /\ placeholders' = r.placeholders
    IN
    /\ pc = "order"
    /\ all_refs' = IF text = <<>> THEN <<>> ELSE LegacyAllRefs(text)
    /\ Encoded(preserve_rst_references(text))
    /\ pc' = "legacy"
    /\ UNCHANGED <<text, cache, damage, reply, restored, returned, log, po, doc,
                   prev, passes, other>>
    /\ UNCHANGED <<batch_vars, cache_vars>>

\* restore_rst_references(preserved_text, placeholders), in both orders
OrderRestore ==
    /\ pc = "legacy"
    /\ doc' = restore_rst_references(tagged, placeholders)
    /\ other' = restore_rst_references(tagged, Reversed(placeholders))
    /\ pc' = "legacy_restored"
    /\ UNCHANGED <<text, cache, all_refs, tagged, placeholders, damage, reply,
                   restored, returned, log, po, prev, passes>>
    /\ UNCHANGED <<batch_vars, cache_vars>>

OrderNext ==
    \/ OrderPreserveMustache
    \/ OrderRestoreMustache
    \/ OrderPreserve
    \/ OrderRestore

OrderSpec == OrderInit /\ [][OrderNext]_vars

(***************************************************************************)
(* process_manual: translate_text under the retry decorator, entry by      *)
(* entry and file by file                                                  *)
(***************************************************************************)
\* the most entries of a run
MaxUnits == 2

\* stop=stop_after_attempt(3)
stop_after_attempt == 3

\* a retry predicate that holds for every exception
RetryAlways(error) == TRUE

\* retry=lambda retry_state: isinstance(retry_state.outcome.exception(),
\*                                      deepl.exceptions.DeepLException)
RetryIf(error) == error = "DeepLException"

\* a lookup that finds nothing
NeverCached(text_, table, skip_cache_read) == None

\* a lookup that reads the cache whatever the option says
ReadAnyway(text_, table, skip_cache_read) == get_cached_translation(text_, table)

\* get_cached_translation with self.skip_cache_read (lines 1021-1046)
CachedTranslation(text_, table, skip_cache_read) ==
    IF skip_cache_read THEN None ELSE get_cached_translation(text_, table)

\* a handler that leaves the counters alone
CountNothing(c) == c

\* fail_count += 1
CountFailed(c) == [c EXCEPT !.fail = @ + 1]

\* the msgids of a run: a unit with a reference, and a separator line
BatchTexts == {Forms[1], <<"=">>}
\* a msgstr of an earlier run, and a cached translation of an earlier run
OldMsgstr == <<"o", "l", "d">>
OldCached == <<"c", "a", "c", "h", "e", "d">>

\* the entries of one or two files, file by file; a msgid stands once in a
\* file
\* an entry with the fuzzy flag has a msgstr
Entries ==
    {e \in [msgid : BatchTexts, msgstr : {<<>>, OldMsgstr},
            flags : {{}, {"fuzzy"}}, file : {1, 2}] :
        e.flags = {} \/ e.msgstr # <<>>}
Batches ==
    {b \in UNION {[1..n -> Entries] : n \in 1..MaxUnits} :
        /\ b[1].file = 1
        /\ \A j \in 2..Len(b) : b[j].file \in {b[j - 1].file, b[j - 1].file + 1}
        /\ \A i, j \in 1..Len(b) :
              (i < j /\ b[i].file = b[j].file) => b[i].msgid # b[j].msgid}

\* a test every value passes
AlwaysTruthy(translated) == TRUE

\* if translated (line 1597)
Truthy(translated) == translated \notin {None, <<>>}

\* a test that looks at the msgstr only
UntranslatedOnly(entry, translate_all) == entry.msgstr = <<>>

\* if not entry.msgstr or translate_all (line 1594)
ToTranslate(entry, translate_all) == entry.msgstr = <<>> \/ translate_all

\* line 1077
Skipped(text_) == text_ = <<>> \/ Strip(text_) = <<>> \/ Strip(text_) = <<"=">>

\* what the engine does in a run: nothing, other words for the display text,
\* the token lost, or an empty result
BatchDamages(table) ==
    {[k |-> 0, mode |-> "same"], [k |-> 0, mode |-> "empty"]}
    \cup {[k |-> 1, mode |-> m] : m \in IF table = <<>> THEN {}
                                        ELSE {"translate", "lost_token"}}

\* a loop that keeps the translation in memory only
KeepInMemory(po_, file_, msgid, msgstr) == po_

\* update_po_file_single_entry(po_path, msgid, translated): the entry gets
\* the msgstr and loses the fuzzy flag; an entry that is not there is made,
\* without flags; the file is saved
UpdatePoEntry(po_, file_, msgid, msgstr) ==
    {e \in po_ : ~(e[1] = file_ /\ e[2] = msgid)}
    \cup {<<file_, msgid, msgstr,
            UNION {e[4] \ {"fuzzy"} : e \in {d \in po_ : d[1] = file_ /\ d[2] = msgid}}>>}

BatchInit ==
    /\ units \in Batches
    /\ idx = 1 /\ file = 1
    /\ options \in [disable_cache : BOOLEAN, translate_all : BOOLEAN]
    /\ call = NoCall /\ cache_hits = 0
    /\ counts = NoCounts /\ totals = NoCounts
    /\ po_file = {<<units[j].file, units[j].msgid, units[j].msgstr, units[j].flags>> :
                    j \in 1..Len(units)}
    /\ text = <<>>
    /\ pc = "file"
    /\ cache \in {{}, {<<Forms[1], OldCached>>}}
    /\ all_refs = <<>> /\ tagged = <<>> /\ placeholders = <<>>
    /\ damage = [k |-> 0, mode |-> "same"] /\ reply = <<>> /\ restored = <<>>
    /\ returned = None /\ log = {} /\ po = <<>>
    /\ doc = <<>> /\ prev = <<>> /\ passes = 0
    /\ OrderIdle /\ CacheIdle

\* process_manual starts on a file (lines 1552-1590)
ProcessManualFile ==
    /\ pc = "file"
    /\ counts' = NoCounts
    /\ pc' = "next"
    /\ UNCHANGED <<text, cache, all_refs, tagged, placeholders, damage, reply,
                   restored, returned, log, po, doc, prev, passes, order_vars, cache_vars,
                   units, idx, file, options, call, cache_hits, totals, po_file>>

\* process_manual comes to an entry of the file (lines 1593-1596, 1641-1645):
\* an entry with a msgstr is skipped unless all entries are to be translated,
\* for the others translate_text is called
ProcessManualEntry ==
    /\ pc = "next"
    /\ idx <= Len(units) /\ units[idx].file = file
    /\ IF ~ToTranslate(units[idx], options.translate_all)
       THEN /\ counts' = [counts EXCEPT !.skip = @ + 1]
            /\ idx' = idx + 1
            /\ log' = log \cup {"skipping"}
            /\ UNCHANGED <<text, pc, call, returned, reply, restored>>
       ELSE /\ text' = units[idx].msgid
            /\ call' = [NoCall EXCEPT !.cache = cache]
            /\ returned' = None /\ reply' = <<>> /\ restored' = <<>>
            /\ pc' = "attempt"
            /\ UNCHANGED <<counts, idx, log>>
    /\ UNCHANGED <<cache, all_refs, tagged, placeholders, damage, po, doc, prev,
                   passes, order_vars, cache_vars, units, file, options, cache_hits, totals,
                   po_file>>

\* the decorator calls the body of translate_text, which runs up to the call
\* of the engine (lines 1077-1094)
RetryAttempt ==
    LET Encoded(r) ==
            /\ tagged' = r.tagged
            /\ placeholders' = r.placeholders
    IN
    /\ pc = "attempt"
    /\ call' = [call EXCEPT !.attempts = @ + 1]
    /\ IF Skipped(text)
       THEN /\ returned' = None /\ pc' = "result"
            /\ UNCHANGED <<all_refs, tagged, placeholders, cache_hits, log>>
       ELSE /\ cache_hits' = IF CachedTranslation(text, cache, options.disable_cache) # None
                             THEN cache_hits + 1 ELSE cache_hits
            /\ IF CachedTranslation(text, cache, options.disable_cache) \notin {None, <<>>}
               THEN /\ returned' = CachedTranslation(text, cache, options.disable_cache)
                    /\ log' = log \cup {"cache_hit"}
                    /\ pc' = "result"
                    /\ UNCHANGED <<all_refs, tagged, placeholders>>
               ELSE /\ all_refs' = MustacheAllRefs(text)
                    /\ Encoded(preserve_rst_references_with_mustache(text))
                    /\ pc' = "engine"
                    /\ UNCHANGED <<returned, log>>
    /\ UNCHANGED <<text, cache, damage, reply, restored, po, doc, prev, passes,
                   order_vars, cache_vars, units, idx, file, options, counts, totals, po_file>>

\* the engine returns a result; the body decodes, repairs and caches it
\* (lines 1121-1129)
EngineResult ==
    /\ pc = "engine"
    /\ \E d \in BatchDamages(placeholders) :
            /\ damage' = d
            /\ reply' = IF d.mode = "empty" THEN <<>>
                        ELSE EngineText(tagged, placeholders, d.k, d.mode)
    /\ call' = [call EXCEPT !.engine_calls = @ + 1]
    /\ IF reply' # <<>>
       THEN /\ restored' = restore_rst_references_from_mustache(reply', placeholders)
            /\ returned' = fix_rst_formatting(restored')
            /\ cache' = cache_translation(text, cache, returned')
            /\ log' = log \cup {"cached"}
       ELSE /\ returned' = reply'
            /\ UNCHANGED <<restored, cache, log>>
    /\ pc' = "cached"
    /\ UNCHANGED <<text, all_refs, tagged, placeholders, po, doc, prev, passes,
                   order_vars, cache_vars, units, idx, file, options, cache_hits, counts,
                   totals, po_file>>

\* the body returns the translation (line 1131)
BodyReturn ==
    /\ pc = "cached"
    /\ call' = [call EXCEPT !.exit = "returned"]
    /\ pc' = "result"
    /\ UNCHANGED <<text, cache, all_refs, tagged, placeholders, damage, reply,
                   restored, returned, log, po, doc, prev, passes, order_vars, cache_vars,
                   units, idx, file, options, cache_hits, counts, totals, po_file>>

\* the engine call ends in a DeepLException, which the body prints and raises
\* again (lines 1136-1140)
EngineDeepLException ==
    /\ pc = "engine"
    /\ call' = [call EXCEPT !.engine_calls = @ + 1, !.error = "DeepLException"]
    /\ log' = log \cup {"translation_error"}
    /\ pc' = "raised"
    /\ UNCHANGED <<text, cache, all_refs, tagged, placeholders, damage, reply,
                   restored, returned, po, doc, prev, passes, order_vars, cache_vars, units,
                   idx, file, options, cache_hits, counts, totals, po_file>>

\* the engine call ends in another exception, which the body prints; it
\* returns None (lines 1141-1143)
EngineOtherException ==
    /\ pc = "engine"
    /\ call' = [call EXCEPT !.engine_calls = @ + 1, !.error = "Exception",
                            !.exit = "returned"]
    /\ returned' = None
    /\ log' = log \cup {"unexpected_error"}
    /\ pc' = "result"
    /\ UNCHANGED <<text, cache, all_refs, tagged, placeholders, damage, reply,
                   restored, po, doc, prev, passes, order_vars, cache_vars, units, idx, file,
                   options, cache_hits, counts, totals, po_file>>

\* the user interrupts the body, during the engine call or after it; the body
\* prints and raises again (lines 1133-1135)
UserInterrupt ==
    /\ pc \in {"engine", "cached"}
    /\ call' = [call EXCEPT !.error = "KeyboardInterrupt"]
    /\ log' = log \cup {"interrupted"}
    /\ pc' = "raised"
    /\ UNCHANGED <<text, cache, all_refs, tagged, placeholders, damage, reply,
                   restored, returned, po, doc, prev, passes, order_vars, cache_vars, units,
                   idx, file, options, cache_hits, counts, totals, po_file>>

\* the decorator decides on an exception of the body (lines 1072-1074): it
\* calls the body again, gives up with a RetryError, or lets the exception
\* pass
RetryDecision ==
    /\ pc = "raised"
    /\ IF RetryIf(call.error)
       THEN IF call.attempts < stop_after_attempt
            THEN /\ pc' = "attempt"
                 /\ UNCHANGED call
            ELSE /\ call' = [call EXCEPT !.exit = "RetryError"]
                 /\ pc' = "result"
       ELSE /\ call' = [call EXCEPT !.exit = call.error]
            /\ pc' = "result"
    /\ UNCHANGED <<text, cache, all_refs, tagged, placeholders, damage, reply,
                   restored, returned, log, po, doc, prev, passes, order_vars, cache_vars,
                   units, idx, file, options, cache_hits, counts, totals, po_file>>

\* process_manual takes what the call gave (lines 1596-1640): a translation is
\* saved to the PO file and counted, an exception is counted as a failure, an
\* interrupt ends the run
ProcessManualResult ==
    /\ pc = "result"
    /\ IF call.exit = "KeyboardInterrupt"
       THEN /\ pc' = "interrupted"
            /\ UNCHANGED <<idx, counts, po_file, log>>
       ELSE /\ pc' = "next"
            /\ idx' = idx + 1
            /\ IF call.exit = "RetryError"
               THEN /\ counts' = CountFailed(counts)
                    /\ log' = log \cup {"failed"}
                    /\ UNCHANGED po_file
               ELSE IF Truthy(returned)
               THEN /\ po_file' = UpdatePoEntry(po_file, file, text, returned)
                    /\ counts' = [counts EXCEPT !.success = @ + 1]
                    /\ log' = log \cup {"translated"}
               ELSE UNCHANGED <<counts, po_file, log>>
    /\ UNCHANGED <<text, cache, all_refs, tagged, placeholders, damage, reply,
                   restored, returned, po, doc, prev, passes, order_vars, cache_vars, units,
                   file, options, call, cache_hits, totals>>

\* process_manual is through with the entries of the file (lines 1761-1783):
\* the counters of the file go to the totals if the file has a translation,
\* and the next file follows
ProcessManualFileEnd ==
    /\ pc = "next"
    /\ IF idx > Len(units) THEN TRUE ELSE units[idx].file # file
    /\ totals' = IF counts.success + counts.skip > 0
                 THEN [success |-> totals.success + counts.success,
                       skip |-> totals.skip + counts.skip,
                       fail |-> totals.fail + counts.fail]
                 ELSE totals
    /\ IF idx > Len(units)
       THEN pc' = "finished" /\ UNCHANGED file
       ELSE pc' = "file" /\ file' = file + 1
    /\ UNCHANGED <<text, cache, all_refs, tagged, placeholders, damage, reply,
                   restored, returned, log, po, doc, prev, passes, order_vars, cache_vars,
                   units, idx, options, call, cache_hits, counts, po_file>>

BatchNext ==
    \/ ProcessManualFile
    \/ ProcessManualEntry
    \/ RetryAttempt
    \/ EngineResult
    \/ BodyReturn
    \/ EngineDeepLException
    \/ EngineOtherException
    \/ UserInterrupt
    \/ RetryDecision
    \/ ProcessManualResult
    \/ ProcessManualFileEnd

BatchSpec == BatchInit /\ [][BatchNext]_vars
(***************************************************************************)
(* Claims                                                                  *)
(***************************************************************************)
\* translate_text has decoded a reply of the engine
Decoded == pc \in {"done", "stored"} /\ reply # <<>>

\* a placeholder token, or the head of one, stands in s
HasToken(s) ==
    \/ Contains(s, <<"{","{","R","S","T","_","L","A","B","E","L","_">>)
    \/ Contains(s, <<"{","{","R","S","T","_","U","R","L","_">>)
    \/ Contains(s, <<"{","{","R","S","T","_","S","I","M","P","L","E","R","E","F","_">>)
    \/ Contains(s, <<"{","{","R","S","T","_","S","U","B","S","T","_">>)

\* ':ref:`' + display + (optional space) + '<label>`' for table entry e
Emitted(e, display) ==
    REF \o display \o (IF e.has_space THEN <<" ">> ELSE <<>>)
    \o <<"<">> \o e.label \o <<">", BQ>>

\* the display text and the label of the j-th collected reference as they
\* stand in the source unit
SourceDisplay(j) == Group(text, all_refs[j].match, 1)
SourceLabel(j) == Group(text, all_refs[j].match, 2)

\* ':ref:`' + display + S + '<' + L + '>`' for the j-th collected reference,
\* S and L read from the source unit
Template(j, display) ==
    REF \o display
    \o (IF SourceDisplay(j) # <<>> /\ SourceDisplay(j)[Len(SourceDisplay(j))] = " "
        THEN <<" ">> ELSE <<>>)
    \o <<"<">> \o Strip(SourceLabel(j)) \o <<">", BQ>>

\* the display text of the j-th table entry as it stands in the reply
ReplyDisplay(j) ==
    IF damage.k = j /\ damage.mode = "translate"
    THEN Translated(placeholders[j].display_text)
    ELSE placeholders[j].display_text

\* the token of the j-th labeled reference stands in the reply inside
\* ':ref:`...`', preceded by display text
TokenAfterDisplay(j) ==
    /\ placeholders[j].type = "complex"
    /\ j # damage.k \/ damage.mode \in {"same", "translate"}
    /\ Strip(ReplyDisplay(j)) # <<>>
    /\ Contains(reply, REF \o ReplyDisplay(j)
                       \o Token("complex", placeholders[j].id) \o <<BQ>>)

\* every labeled reference of the reply still carries its token
LabeledTokensKept ==
    ~(/\ damage.mode \in {"lost_token", "bare"}
      /\ placeholders[damage.k].type = "complex")

\* the normalisation rules at the end of the decoder rewrite the reference
Standardised(ref) == ApplyRules(ref, MustacheRules, 1) # ref

\* C1: decoding the encoder's own output, nothing translated in between,
\* gives back the unit exactly.
C1_RoundTrip ==
    (Decoded /\ damage.mode = "same") => restored = text

\* a hyperlink without a space before '<' comes back with one
C1_SpaceInserted ==
    /\ Decoded /\ damage.mode = "same"
    /\ text = <<BQ,"c","<","u",">",BQ,"_">>
    /\ restored = <<BQ,"c"," ","<","u",">",BQ,"_">>

\* C2: the spans of the references the encoder collects are pairwise
\* disjoint.
C2_NonOverlap ==
    \A i, j \in 1..Len(all_refs) :
        i < j => \/ all_refs[i].end <= all_refs[j].start
                 \/ all_refs[j].end <= all_refs[i].start

\* a substitution inside the display text of a labeled reference is
\* collected with it, and the labeled reference is rewritten with the
\* offsets the substitution's replacement has invalidated
C2_SubstitutionInside ==
    /\ pc = "engine"
    /\ text = <<":","r","e","f",":",BQ,"a","|","s","|"," ","<","m",">",BQ>>
    /\ Len(all_refs) = 2
    /\ all_refs[1].type = "subst" /\ all_refs[2].type = "complex"
    /\ all_refs[2].start < all_refs[1].start /\ all_refs[1].end < all_refs[2].end
    /\ tagged = <<":","r","e","f",":",BQ,"a","|","s","|","{","{","R","S","T",
           "_","L","A","B","E","L","_","C","O","M","P","L","E","X","_",
           "R","E","F","_","1","}","}",BQ,"B","S","T","_","S","U","B",
           "S","T","_","R","E","F","_","0","}","}"," ","<","m",">",BQ>>

\* C3: the tokens of a unit are pairwise distinct, and the table has one
\* entry for each collected reference, no two under the same placeholder id.
C3_TokenUniqueness ==
    pc # "call" =>
        /\ Len(placeholders) = Len(all_refs)
        /\ \A i, j \in 1..Len(placeholders) :
              i # j => /\ placeholders[i].id # placeholders[j].id
                       /\ Token(placeholders[i].type, placeholders[i].id)
                            # Token(placeholders[j].type, placeholders[j].id)

\* two references of one kind have been encoded
C3_TwoOfAKind ==
    /\ pc = "engine"
    /\ Len(placeholders) = 2
    /\ placeholders[1].type = placeholders[2].type
    /\ placeholders[1].id # placeholders[2].id

\* C4: when the token of the changed reference stands intact in the reply,
\* the decoder's output holds no placeholder token and no ':ref:`<'.
C4_NoTokenSurvives ==
    (Decoded /\ damage.mode \notin {"lost_token", "bare"}) =>
        ~HasToken(restored) /\ ~Contains(restored, REF \o <<"<">>)

\* the engine dropped ':ref:`' in front of the display text, and the token
\* is still there after decoding
C4_PrefixDropped ==
    /\ Decoded /\ damage.mode = "lost_prefix"
    /\ text = <<":","r","e","f",":",BQ,"a"," ","<","l",">",BQ>>
    /\ reply = <<"a","{","{","R","S","T","_","L","A","B","E","L","_","C","O",
           "M","P","L","E","X","_","R","E","F","_","0","}","}",BQ>>
    /\ restored = reply

\* C5: a labeled reference that comes back as its token alone, or as its
\* bare '<label>' form, is emitted with its original display text and
\* label, and the output holds no reference with empty display text.
C5_Fallback ==
    (Decoded /\ damage.mode \in {"lost_display", "bare"}
       /\ placeholders[damage.k].type = "complex") =>
        /\ Contains(restored, Emitted(placeholders[damage.k],
                                      placeholders[damage.k].display_text))
        /\ ~Contains(restored, REF \o <<"<">>)

\* the bare form of one reference is taken for the display text of the
\* reference after it
C5_BareFormMerged ==
    /\ Decoded /\ damage.mode = "bare" /\ damage.k = 2
    /\ text = <<":","r","e","f",":",BQ,"a"," ","<","l",">",BQ,":","r","e",
           "f",":",BQ,"b","<","l",">",BQ>>
    /\ reply = <<":","r","e","f",":",BQ,"<","l",">",BQ,":","r","e","f",":",
           BQ,"b","{","{","R","S","T","_","L","A","B","E","L","_","C",
           "O","M","P","L","E","X","_","R","E","F","_","0","}","}",BQ>>
    /\ restored = <<":","r","e","f",":",BQ,"<","l",">","<","l",">",BQ>>

\* C6: a hyperlink that comes back as its token alone is replaced by
\* '`' + link text + ' <' + URL + '>'.
C6_Hyperlink ==
    (Decoded /\ damage.mode = "lost_display"
       /\ placeholders[damage.k].type = "url") =>
        Contains(restored, <<BQ>> \o placeholders[damage.k].link_text
                           \o <<" ", "<">> \o placeholders[damage.k].url \o <<">">>)

\* the token of the hyperlink is left in the output
C6_TokenLeft ==
    /\ Decoded /\ damage.mode = "lost_display"
    /\ text = <<BQ,"c"," ","<","u",">",BQ,"_">>
    /\ reply = <<"{","{","R","S","T","_","U","R","L","_","U","R","L","_","R",
           "E","F","_","0","}","}",BQ,"_">>
    /\ restored = reply

C8_LostToken ==
    (Decoded /\ damage.mode = "lost_token") =>
        \A j \in 1..Len(placeholders) :
            (j # damage.k /\ placeholders[j].type = "complex") =>
                Contains(restored, Emitted(placeholders[j],
                                           placeholders[j].display_text))

\* the label of the surviving token is attached to the text of the lost
\* reference, and the two references have become one
C8_Merged ==
    /\ Decoded /\ damage.mode = "lost_token" /\ damage.k = 2
    /\ text = <<":","r","e","f",":",BQ,"a"," ","<","l",">",BQ,":","r","e",
           "f",":",BQ,"b","<","l",">",BQ>>
    /\ reply = <<":","r","e","f",":",BQ,"a",BQ,":","r","e","f",":",BQ,"b",
           "{","{","R","S","T","_","L","A","B","E","L","_","C","O","M",
           "P","L","E","X","_","R","E","F","_","0","}","}",BQ>>
    /\ restored = <<":","r","e","f",":",BQ,"a","<","l",">",BQ>>

\* C9: a unit with a reference whose token was lost, or is still there
\* after decoding and repair, is not returned, cached and stored with the
\* same messages as a fully restored unit.
C9_Reported ==
    (pc = "stored" /\ reply # <<>>
       /\ (damage.mode = "lost_token" \/ HasToken(returned))) =>
        ~(/\ po = returned
          /\ <<text, returned>> \in cache
          /\ log = {"cached", "translated"})

\* the unit whose token was lost is cached and stored like any other
C9_StoredSilently ==
    /\ pc = "stored" /\ damage.mode = "lost_token"
    /\ text = <<":","r","e","f",":",BQ,"a"," ","<","l",">",BQ>>
    /\ returned = <<":","r","e","f",":",BQ,"a",BQ>>
    /\ po = returned
    /\ <<text, returned>> \in cache
    /\ log = {"cached", "translated"}

\* C10: a repair method applied to its own output changes nothing.
C10_Idempotent == passes >= 2 => doc = prev

\* the second pass of fix_rst_formatting changes the text again
C10_SecondPassChanges ==
    /\ pc = "fix" /\ passes = 2
    /\ text = <<"*","a","*"," ","b">>
    /\ prev = <<"*","a","*"," ","b","*">>
    /\ doc = <<"*","a","*","b","*">>

\* C11: when the collected spans are disjoint and the text comes back as it
\* was sent, either decoder gives the same text whichever way it walks the
\* table.
C11_OrderIndependent ==
    (pc \in {"mustache_restored", "legacy_restored"} /\ C2_NonOverlap) =>
        doc = other

\* with eleven references, restore_rst_references puts the text of
\* ..._REF_1 where the token of ..._REF_10 stands; with the table walked
\* backwards the unit comes back as it was
C11_PrefixOfAnotherId ==
    /\ pc = "legacy_restored"
    /\ text = ElevenSubstitutions
    /\ other = text
    /\ doc = <<"|","j","|","0"," ","|","b","|"," ","|","c","|"," ","|","d",
           "|"," ","|","e","|"," ","|","f","|"," ","|","g","|"," ","|",
           "h","|"," ","|","i","|"," ","|","j","|"," ","|","k","|">>

\* C12: a restored labeled reference followed by 'ns', or the
\* notices-and-slips reference followed by ' tool', leaves
\* restore_rst_references as the reference alone, display text and label as
\* they were.
C12_OrphanSuffix ==
    (/\ pc = "restore" /\ passes = 1
     /\ Len(placeholders) = 1 /\ placeholders[1].type = "complex"
     /\ \/ text = placeholders[1].full \o <<"n", "s">>
        \/ /\ placeholders[1].full = NoticesAndSlips
           /\ text = NoticesAndSlips \o <<" ", "t", "o", "o", "l">>) =>
        doc = placeholders[1].full

\* the last word of the display text is taken out and ' tool' stays
C12_WordLost ==
    /\ pc = "restore" /\ passes = 1
    /\ text = NoticesAndSlips \o <<" ", "t", "o", "o", "l">>
    /\ doc = <<":","r","e","f",":",BQ,"n","o","t","i","c","e","s"," ","a",
           "n","d"," ","<","n","o","t","i","c","e","s","-","a","n","d",
           "-","s","l","i","p","s","-","l","a","b","e","l",">",BQ," ",
           "t","o","o","l">>

\* C13: for one call of translate_text the engine is invoked at most three
\* times; the body is called again only after an attempt that ended in a
\* DeepLException; and after the third engine error in a row no further
\* attempt follows: the call ends in an exception for the caller.
C13_AtMostThree ==
    /\ call.engine_calls <= 3
    /\ call.attempts <= 3
    /\ call.exit = "RetryError" =>
          call.engine_calls = 3 /\ call.error = "DeepLException"
C13_Step ==
    /\ (call'.attempts > call.attempts /\ call.attempts > 0) =>
          (pc = "attempt" /\ call.error = "DeepLException")
    /\ (pc = "raised" /\ pc' = "attempt") => call.error = "DeepLException"
    /\ (pc = "raised" /\ call.error = "DeepLException" /\ call.engine_calls = 3) =>
          (pc' = "result" /\ call'.exit = "RetryError" /\ call'.attempts = 3)
C13_BoundedRetry == [](C13_AtMostThree) /\ [][C13_Step]_vars
\* the engine failed three times in a row and the call has ended in the
\* exception of the decorator
C13_GaveUp ==
    /\ pc = "result" /\ call.exit = "RetryError"
    /\ call.engine_calls = 3 /\ call.attempts = 3

\* C14: when the call for an entry ends in the exception of the decorator,
\* process_manual counts the entry as failed and goes on with the next entry;
\* entries are taken one by one, none is left out, and the run ends only
\* after the last entry of the last file, or by an interrupt of the user.
C14_Step ==
    /\ (pc = "result" /\ call.exit = "RetryError") =>
          /\ counts'.fail = counts.fail + 1
          /\ counts'.success = counts.success /\ counts'.skip = counts.skip
          /\ pc' = "next" /\ idx' = idx + 1
          /\ units' = units /\ file' = file
    /\ idx' \in {idx, idx + 1}
    /\ file' \in {file, file + 1}
    /\ pc' = "interrupted" => call.exit = "KeyboardInterrupt"
C14_NoneLeftOut ==
    /\ pc = "finished" => (idx = Len(units) + 1 /\ file = units[Len(units)].file)
    /\ pc = "next" => ENABLED (ProcessManualEntry \/ ProcessManualFileEnd)
    /\ pc = "file" => (idx <= Len(units) /\ units[idx].file = file)
    /\ pc \in {"attempt", "engine", "cached", "raised", "result"} =>
          (idx <= Len(units) /\ units[idx].file = file /\ text = units[idx].msgid)
C15_Step ==
    (pc = "result" /\ call.error = "Exception") =>
        \/ call.exit \notin {"none", "returned"}
        \/ counts'.fail = counts.fail + 1
C15_PermanentSurfaced == [][C15_Step]_vars
\* the engine call of the first entry ended in such an exception,
\* translate_text returned None as for a blank unit, and process_manual went
\* on to the next entry without counting a failure
C15_PassedOver ==
    /\ pc = "next" /\ idx = 2
    /\ call.error = "Exception" /\ call.exit = "returned" /\ returned = None
    /\ counts = NoCounts /\ "failed" \notin log

\* C16: an interrupt of the user during a call of translate_text is not
\* followed by a further attempt, ends the run, and leaves neither a cache
\* entry nor a change of the PO file for the entry of the call.
C16_CancelAtomic ==
    /\ call.error = "KeyboardInterrupt" => pc \in {"raised", "result", "interrupted"}
    /\ (pc \in {"result", "interrupted"} /\ call.error = "KeyboardInterrupt") =>
          /\ call.exit = "KeyboardInterrupt"
          /\ cache = call.cache
          /\ <<file, text, units[idx].msgstr, units[idx].flags>> \in po_file
\* the interrupt came after cache_translation: the run has ended, the cache
\* holds the translation of the entry, the PO file does not
C16_CachedNotSaved ==
    /\ pc = "interrupted" /\ call.exit = "KeyboardInterrupt"
    /\ call.cache = {} /\ cache = {<<text, returned>>}
    /\ <<file, text, <<>>, {}>> \in po_file
    /\ counts = NoCounts

\* C17: with cache reading enabled, a call of translate_text for a text the
\* cache holds a translation of returns the stored translation, calls the
\* engine not once, leaves the cache as it is, and adds one to cache_hits.
C17_Step ==
    (pc = "attempt" /\ ~options.disable_cache /\ \E c \in cache : c[1] = text) =>
        /\ \E c \in cache : c[1] = text /\ returned' = c[2]
        /\ pc' = "result"
        /\ cache' = cache
        /\ cache_hits' = cache_hits + 1
        /\ call'.engine_calls = 0
C17_Call ==
    (pc = "result" /\ ~options.disable_cache /\ \E c \in call.cache : c[1] = text) =>
        /\ \E c \in call.cache : c[1] = text /\ returned = c[2]
        /\ cache = call.cache
        /\ call.engine_calls = 0 /\ call.attempts = 1
C18_EveryNonEmptyStep ==
    (pc = "attempt" /\ options.disable_cache /\ text # <<>>) => pc' = "engine"
C18_Step ==
    /\ (pc = "attempt" /\ options.disable_cache /\ ~Skipped(text)) =>
          (pc' = "engine" /\ cache_hits' = cache_hits /\ returned' = None)
    /\ (pc = "engine" /\ pc' = "cached" /\ options.disable_cache /\ reply' # <<>>) =>
          /\ {c \in cache' : c[1] = text} = {<<text, returned'>>}
          /\ {c \in cache' : c[1] # text} = {c \in cache : c[1] # text}
C18_Call ==
    options.disable_cache =>
        /\ cache_hits = 0 /\ "cache_hit" \notin log
        /\ (pc = "result" /\ returned \notin {None, <<>>}) =>
              /\ call.engine_calls >= 1
              /\ {c \in cache : c[1] = text} = {<<text, returned>>}
C19_Step ==
    request'.op = "translate_text" =>
        (request'.engine_calls = 1 <=>
            \/ request'.disable_cache
            \/ ~ \E r \in translations :
                    <<r.source_text, r.target_lang, r.source_lang>> = request'.key)
C19_EngineExactlyWhen == [][C19_Step]_vars
\* with caching enabled the call found the empty translation of an earlier
\* call in the cache and called the engine again
C19_CalledAgain ==
    /\ request.op = "translate_text" /\ ~request.disable_cache
    /\ request.cached_translation = <<>> /\ request.engine_calls = 1

\* C20: the table holds at most one row for a text and a pair of languages;
\* get_from_cache gives the translation add_to_cache was last called with
\* for the key, and None for a key add_to_cache was never called with.
C20_LastWriterWins ==
    /\ \A r, s \in translations :
          <<r.source_text, r.target_lang, r.source_lang>>
            = <<s.source_text, s.target_lang, s.source_lang>> => r = s
    /\ \A k \in CacheKeys :
          get_from_cache(translations, k[1], k[2], k[3])
            = IF added[k] = <<>> THEN None ELSE added[k][Len(added[k])]
    /\ request.op = "get_from_cache" =>
          request.result = IF added[request.key] = <<>> THEN None
                           ELSE added[request.key][Len(added[request.key])]
\* add_to_cache was called a second time for a key, with another translation,
\* and get_from_cache has given the second one
C20_Updated ==
    /\ request.op = "get_from_cache" /\ request.result = <<"x">>
    /\ added[request.key] = << <<>>, <<"x">> >>
    /\ \E k \in CacheKeys : k # request.key /\ added[k] = <<>>
    /\ Cardinality(translations) = 1

\* C22: without translate_all an entry of the PO file that has a msgstr is
\* not given to translate_text and is counted as skipped; with translate_all
\* every entry is given to translate_text, with or without a msgstr.
C22_Step ==
    (pc = "next" /\ pc' \in {"next", "attempt"}) =>
        /\ idx <= Len(units) /\ units[idx].file = file
        /\ (~options.translate_all /\ units[idx].msgstr # <<>>) =>
              /\ pc' = "next" /\ call' = call /\ text' = text
              /\ counts' = [counts EXCEPT !.skip = @ + 1]
              /\ po_file' = po_file /\ cache' = cache
        /\ (options.translate_all \/ units[idx].msgstr = <<>>) =>
              /\ pc' = "attempt" /\ text' = units[idx].msgid
              /\ counts' = counts /\ idx' = idx
C22_Call ==
    /\ (pc \in {"attempt", "engine", "cached", "raised", "result"}
          /\ ~options.translate_all) => units[idx].msgstr = <<>>
    /\ (pc = "finished" /\ options.translate_all) => counts.skip = 0
C22_KeptUnlessAll == [](C22_Call) /\ [][C22_Step]_vars
\* with translate_all the call of translate_text for an entry that had a
\* msgstr has given a translation, which has taken the place of the msgstr
C22_Replaced ==
    /\ pc = "next" /\ idx = 2 /\ options.translate_all
    /\ units[1].msgstr = OldMsgstr
    /\ counts = [success |-> 1, skip |-> 0, fail |-> 0]
    /\ <<1, units[1].msgid, returned, {}>> \in po_file /\ returned # OldMsgstr

\* C27: a translation translate_text has given for an entry is in the PO
\* file, without the fuzzy flag, before process_manual comes to the next
\* entry, and it stays there: whenever the run is interrupted, the PO file
\* holds the translations counted so far.
C27_Step ==
    /\ (pc = "result" /\ call.exit \notin {"RetryError", "KeyboardInterrupt"}
          /\ returned \notin {None, <<>>}) =>
          (<<file, text, returned, {}>> \in po_file' /\ pc' = "next")
    /\ \A e \in po_file :
          e \in po_file' \/ (pc = "result" /\ e[1] = file /\ e[2] = text)
    /\ counts'.success = counts.success + 1 =>
          <<file, text, returned, {}>> \in po_file'
C27_Saved ==
    pc # "file" =>
        counts.success <=
            Cardinality({e \in po_file : e[1] = file /\ e[3] # <<>> /\ e[4] = {}})
C29_Failed ==
    /\ pc = "result" /\ call.exit # "KeyboardInterrupt"
    /\ call.exit = "RetryError" \/ returned = None
C29_Step ==
    /\ C29_Failed => (po_file' = po_file /\ cache' = cache)
    /\ cache' # cache =>
          /\ pc = "engine" /\ pc' = "cached" /\ reply' # <<>>
          /\ call'.engine_calls = call.engine_calls + 1
          /\ cache' = {c \in cache : c[1] # text} \cup {<<text, returned'>>}
C29_Cached ==
    (pc = "cached" /\ reply # <<>>) =>
        returned = fix_rst_formatting(
                      restore_rst_references_from_mustache(reply, placeholders))
C29_StoresKept ==
    /\ [](C29_Failed => cache = call.cache)
    /\ [](C29_Cached)
    /\ [][C29_Step]_vars
\* the call for the first entry ended in the exception of the decorator; the
\* cache and the entry of the PO file are what they were
C29_NothingWritten ==
    /\ pc = "next" /\ idx = 2 /\ call.exit = "RetryError"
    /\ counts.fail = 1 /\ cache = call.cache
    /\ <<1, units[1].msgid, units[1].msgstr, units[1].flags>> \in po_file

\* C30: the totals process_manual gives to print_summary are the sums of the
\* counts of the files: every entry that was translated, skipped or failed
\* is in them, also the failed entries of a file without a translated or
\* skipped entry.
C30_Step ==
    (pc = "next" /\ pc' \in {"file", "finished"}) =>
        totals' = [success |-> totals.success + counts.success,
                   skip |-> totals.skip + counts.skip,
                   fail |-> totals.fail + counts.fail]
C30_TotalsComplete == [][C30_Step]_vars
\* the only entry of the only file failed, and the failed total is 0
C30_FailureNotReported ==
    /\ pc = "finished" /\ Len(units) = 1
    /\ call.exit = "RetryError" /\ "failed" \in log
    /\ counts.fail = 1 /\ totals = NoCounts

\* C24: fix_rst_formatting puts one space after the closing marker of a
\* label in bold or italics that a word follows directly, and one space
\* after the dot of a list number that '**' follows directly, and changes
\* nothing else.
C24_SpaceRestored ==
    (pc = "fix" /\ passes = 1) =>
        /\ prev = <<"2",".","*","*","a",":","*","*","b">> =>
              doc = <<"2","."," ","*","*","a",":","*","*"," ","b">>
        /\ prev = <<"*","a",":","*","b">> => doc = <<"*","a",":","*"," ","b">>
\* no space is put in, and a marker is put at the end of the text
C24_MarkerAppended ==
    /\ pc = "fix" /\ passes = 1
    /\ prev = <<"2",".","*","*","a",":","*","*","b">>
    /\ doc = <<"2",".","*","*","a",":","*","*","b","*","*">>

\* C26: fix_rst_formatting returns a text unchanged in which every span of
\* emphasis and every substitution is closed and every reference has the
\* form :ref:`text <label>`, also when words follow the closing marker.
C26_WellFormed ==
    {<<"*","a","*"," ","b">>, <<"*","*","a","*","*"," ","b">>,
     <<"|","a","|"," ","b">>, <<"|","t","o","d","a","y","|">>,
     <<":","r","e","f",":",BQ,"a"," ","<","l",">",BQ>>}
C26_LeftAlone ==
    (pc = "fix" /\ passes = 1 /\ prev \in C26_WellFormed) => doc = prev
\* '**a** b' has become '**a** b**'
C26_StrayBold ==
    /\ pc = "fix" /\ passes = 1
    /\ prev = <<"*","*","a","*","*"," ","b">>
    /\ doc = <<"*","*","a","*","*"," ","b","*","*">>

\* C21: delete_unused_cache_entries(N) deletes the rows whose creation or
\* last successful get_from_cache is more than N days ago, leaves the other
\* rows as they are, and returns the number of deleted rows.
C21_Step ==
    request'.op = "delete_unused_cache_entries" =>
        LET old == {r \in translations :
                       used[<<r.source_text, r.target_lang, r.source_lang>>]
                          < now - request'.days_old}
        IN  /\ translations' = translations \ old
            /\ request'.result = Cardinality(old)

C21_OldRowsDeleted == [][C21_Step]_vars

\* a row that was found on the day of the deletion is kept and a row that
\* was made earlier and never found is deleted
C21_UsedRowKept ==
    /\ request.op = "delete_unused_cache_entries"
    /\ request.result = 1
    /\ request.days_old = 0
    /\ now > 0
    /\ \E r \in translations :
          used[<<r.source_text, r.target_lang, r.source_lang>>] = now

\* C28: translate_text with a list, the cache enabled and a connection of the
\* caller looks every item up and stores every item on that connection: after
\* the call the database of the connection holds a row for every item and no
\* other cache database has changed.
C28_Step ==
    (/\ request'.op = "translate_text"
     /\ request'.conn = "given"
     /\ ~request'.disable_cache
     /\ request'.isinstance_list) =>
        /\ translations' = translations
        /\ \A i \in 1..Len(request'.text) :
              get_from_cache(supplied', request'.text[i], request'.target_lang,
                             <<"E", "N">>) # None

C28_SuppliedConnectionUsed == [][C28_Step]_vars

\* after translate_text(['a', 'a|SV'], conn = given) with the cache enabled on
\* empty databases, the database of the connection is empty and the default
\* database has the two rows
C28_DefaultDatabaseWritten ==
    /\ request.op = "translate_text"
    /\ request.conn = "given"
    /\ ~request.disable_cache
    /\ request.isinstance_list
    /\ request.text = << <<"a">>, <<"a", "|", "S", "V">> >>
    /\ supplied = {}
    /\ Cardinality(translations) = 2

\* C25: after reorder_po_file returned True the saved PO file has every entry
\* of the original file exactly once, also when a string is on several lines
\* of the RST file; the entries whose msgid matches a line of the RST file
\* come first and the other entries follow in the order they had.
C25_Step ==
    (request'.op = "reorder_po_file" /\ request'.result) =>
        LET old == po_path.entries
            new == po_path'.entries
            strings == extract_strings_from_rst(rst_file.lines)
            Matches(entry) ==
                \E n \in 1..Len(strings) :
                    normalize_text(entry.msgid) = normalize_text(strings[n])
            rest == SelectSeq(old, LAMBDA entry : ~Matches(entry))
        IN  /\ Len(new) = Len(old)
            /\ \A i \in 1..Len(old) :
                  Cardinality({j \in 1..Len(new) : new[j] = old[i]})
                     = Cardinality({j \in 1..Len(old) : old[j] = old[i]})
            /\ Len(new) >= Len(rest)
            /\ SubSeq(new, Len(new) - Len(rest) + 1, Len(new)) = rest

C25_OnlyPermutes == [][C25_Step]_vars

\* the RST file has the line 'a' twice and the saved PO file has the entry
\* with the msgid 'a' twice
C25_EntryTwice ==
    /\ request.op = "reorder_po_file"
    /\ request.result
    /\ rst_file.lines = << <<"a">>, <<"a">> >>
    /\ po_path.entries = << [msgid |-> <<"a">>, msgstr |-> <<"x">>],
                            [msgid |-> <<"a">>, msgstr |-> <<"x">>] >>

\* C23: fix_corrupted_references(po_file, dry_run=True) does not save the PO
\* file and changes the msgstr of no entry, whatever the file holds, and it
\* returns what the call without dry_run returns for the same file.
C23_Step ==
    (request'.op = "fix_corrupted_references" /\ request'.dry_run) =>
        /\ ~request'.saved
        /\ po_path' = po_path
        /\ po_path.exists => request'.po = po_path.entries
        /\ request'.result =
              IF po_path.exists
              THEN fix_corrupted_references(po_path.entries, FALSE).result
              ELSE FALSE

====
